---------------------------- MODULE Spec2Model ----------------------------
(***************************************************************************)
(* A model of the Pelco-D protocol engine of src/lib/pelco/pelco.py        *)
(* (class PelcoDevice) and its constants in src/lib/pelco/__init__.py.     *)
(*                                                                         *)
(* Bytes are integers in 0..255 and byte strings are sequences of them.    *)
(* Python indices are 0-based and TLA+ sequences 1-based: a Python index i *)
(* is position i+1 here.                                                   *)
(*                                                                         *)
(* Three specifications share the variables:                               *)
(*   SpecCodec   _command followed by _find_packet on sampled fields       *)
(*   SpecFramer  sequences of ingest calls on one instance, in every mode  *)
(*   Spec        a NORMAL-mode instance: caller threads, the serial thread *)
(*               (_read_write_loop) and the serial channel                 *)
(***************************************************************************)
EXTENDS Integers, Sequences, FiniteSets, TLC

(***************************************************************************)
(* Constants of src/lib/pelco/__init__.py                                  *)
(***************************************************************************)
COMMAND_SIZE == 7
SYNC_BYTE == 255
MAX_SPEED == 64
EXTENDED_MAX_SPEED == 255

ADDR_INDEX == 1
CMD1_INDEX == 2
CMD2_INDEX == 3
DATA1_INDEX == 4
DATA2_INDEX == 5

TYPE_STANDARD == "STD"
TYPE_EXTENDED == "EXT"
TYPE_ALTERNATE == "ALT"
TYPE_STOP == "STP"

CMD2_PAN_RIGHT == 2
CMD2_PAN_LEFT == 4
CMD2_TILT_UP == 8
CMD2_TILT_DOWN == 16

EXT_CMD_SET_PRESET == 3
EXT_CMD_CALL_PRESET == 7
EXT_CMD_CLEAR_PRESET == 5
EXT_CMD_SET_AUX == 9
EXT_CMD_CLEAR_AUX == 11
EXT_CMD_SET_PAN == 75
EXT_CMD_SET_TILT == 77
EXT_CMD_SET_ZOOM == 79
EXT_CMD_QUERY_PAN == 81
EXT_CMD_QUERY_TILT == 83
EXT_CMD_QUERY_ZOOM == 85
EXT_CMD_QUERY_PAN_RESPONSE == 89
EXT_CMD_QUERY_TILT_RESPONSE == 91
EXT_CMD_QUERY_ZOOM_RESPONSE == 93
EXT_CMD_QUERY_MAGNIFICATION_RESPONSE == 99

ERR_TIMEOUT == 5
ERR_NOT_READY == 6
ERR_SYNC == -1
ERR_BAD_VALUE == -2
ERR_BAD_PAN == -3
ERR_BAD_TILT == -4

KILL_CODE == "DIE"

\* The kill code as the data of a queued message: a sequence, as byte strings
\* are, so that the two compare.
KillData == <<KILL_CODE>>

\* class Mode
PROXY == 0
NORMAL == 1
WRITE_ONLY == 2
VIRTUAL == 3
Modes == {PROXY, NORMAL, WRITE_ONLY, VIRTUAL}

\* class ConnectionState
INITIALIZING == "INITIALIZING"
CONNECTED == "CONNECTED"
DISCONNECTED == "DISCONNECTED"

\* PelcoDevice.__init__: self._max_buffer_size = 256
max_buffer_size == 256

\* DEFAULT_CONFIG["sendAddress"]
send_address == 1

\* DEFAULT_CONFIG as the module defines it (the timeout in tenths of a second).
DEFAULT_CONFIG == [sendAddress |-> send_address, timeout |-> 10, mode |-> PROXY,
                   maxSpeed |-> MAX_SPEED]

\* dict.update(config): the keys of config replace those of d.
DictUpdate(d, config) ==
    [k \in DOMAIN d |-> IF k \in DOMAIN config THEN config[k] ELSE d[k]]

\* DEFAULT_CONFIG after an instance of mode m was constructed with
\* config = {"mode": m}, and what that instance copied from it.
ConfigFor(m) == DictUpdate(DEFAULT_CONFIG, [mode |-> m])

SettingsOf(d) == [send_address |-> d.sendAddress, timeout |-> d.timeout,
                  max_speed |-> d.maxSpeed]

(***************************************************************************)
(* Python helpers                                                          *)
(***************************************************************************)
Min(a, b) == IF a <= b THEN a ELSE b

Max(a, b) == IF a >= b THEN a ELSE b

\* Python's s[k:] for any integer k: a negative k counts from the end, and
\* the start is clamped to the sequence.
PySliceFrom(s, k) ==
    LET start == IF k < 0 THEN Max(Len(s) + k, 0) ELSE Min(k, Len(s))
    IN  SubSeq(s, start + 1, Len(s))

\* The last n elements of s (all of s when it is shorter).
LastN(s, n) == SubSeq(s, Max(Len(s) - n, 0) + 1, Len(s))

\* Python's round(n/d, digits) scaled to an integer count of the last digit:
\* the quotient n/d rounded to the nearest integer, ties to even (n >= 0, d > 0).
RoundHalfEven(n, d) ==
    LET q == n \div d
        r == n % d
    IN  IF 2 * r < d THEN q
        ELSE IF 2 * r > d THEN q + 1
        ELSE IF q % 2 = 0 THEN q ELSE q + 1

\* sum() of a byte string
RECURSIVE Sum(_)
Sum(s) == IF s = <<>> THEN 0 ELSE Head(s) + Sum(Tail(s))

\* int.from_bytes(bytes([d1, d2]), 'big') and (d1 << 8) + d2
Word(d1, d2) == d1 * 256 + d2

\* success(data) and error(err, data) of __init__.py.  An error carries its
\* code (the message text is a function of the code); data is <<>> for None
\* and <<v>> for a value.
success(data) == [success |-> TRUE, data |-> data]

error(err, data) == [success |-> FALSE, error |-> [code |-> err, data |-> data]]

(***************************************************************************)
(* Packet codec                                                            *)
(***************************************************************************)
\* A plausible slip in _command: the checksum without the reduction mod 256.
CommandNoMod(address, cmd1, cmd2, data1, data2) ==
    <<SYNC_BYTE, address, cmd1, cmd2, data1, data2,
      address + cmd1 + cmd2 + data1 + data2>>

\* _command: [address, cmd1, cmd2, data1, data2], the checksum appended, the
\* sync byte inserted in front.
Command(address, cmd1, cmd2, data1, data2) ==
    LET packet == <<address, cmd1, cmd2, data1, data2>>
    IN  <<SYNC_BYTE>> \o packet \o <<Sum(packet) % 256>>

\* The Python indices i at which _find_packet's test succeeds.
PacketStarts(data) ==
    { i \in 0 .. (Len(data) - COMMAND_SIZE) :
        /\ data[i + 1] = 255
        /\ data[i + COMMAND_SIZE] = Sum(SubSeq(data, i + 2, i + COMMAND_SIZE - 1)) % 256 }

\* A plausible slip: the checksum alone is tested, not the sync byte.
FindPacketNoSync(data) ==
    LET starts == { i \in 0 .. (Len(data) - COMMAND_SIZE) :
                      data[i + COMMAND_SIZE] =
                          Sum(SubSeq(data, i + 2, i + COMMAND_SIZE - 1)) % 256 }
    IN  IF starts = {} THEN [match |-> <<>>, position |-> <<>>]
        ELSE LET i == CHOOSE j \in starts : \A k \in starts : j <= k
             IN  [match |-> SubSeq(data, i + 1, i + COMMAND_SIZE),
                  position |-> <<i, i + COMMAND_SIZE>>]

\* _find_packet: the first match and its (start, end) indices, or None, ().
FindPacket(data) ==
    LET starts == PacketStarts(data)
    IN  IF starts = {} THEN [match |-> <<>>, position |-> <<>>]
        ELSE LET i == CHOOSE j \in starts : \A k \in starts : j <= k
             IN  [match |-> SubSeq(data, i + 1, i + COMMAND_SIZE),
                  position |-> <<i, i + COMMAND_SIZE>>]


(***************************************************************************)
(* Semantic translator: _parse                                             *)
(*                                                                         *)
(* Numbers that Python holds as floats are held as integers in a fixed     *)
(* unit: speeds in 1/10000 (round(x, 4)), angles and percentages in 1/100  *)
(* (round(x, 2)); preset and aux ids are plain integers.                   *)
(***************************************************************************)
\* x & m for a single-bit mask m
Bit(x, m) == (x \div m) % 2 = 1

\* None
NoneData == [type |-> "None"]

\* round(d / max_speed, 4), in 1/10000
Speed(d, max_speed) == RoundHalfEven(d * 10000, max_speed)

\* The command letters of a standard packet, in the order _parse appends them.
CmdString(c1, c2) ==
       (IF Bit(c1, 4) THEN "C" ELSE IF Bit(c1, 2) THEN "O" ELSE "")
    \o (IF Bit(c1, 1) THEN "N" ELSE IF Bit(c2, 128) THEN "F" ELSE "")
    \o (IF Bit(c2, 64) THEN "W" ELSE IF Bit(c2, 32) THEN "T" ELSE "")
    \o (IF Bit(c2, 16) THEN "D" ELSE "")
    \o (IF Bit(c2, 8) THEN "U" ELSE "")
    \o (IF Bit(c2, 4) THEN "L" ELSE "")
    \o (IF Bit(c2, 2) THEN "R" ELSE "")

\* A plausible slip: the pan speed is tested before the tilt speed.
ParseStandardPanFirst(addr, c1, c2, d1, d2, max_speed) ==
    LET tilt_speed == IF Bit(c2, 16) \/ Bit(c2, 8) THEN Speed(d2, max_speed) ELSE 0
        pan_speed == IF Bit(c2, 4) \/ Bit(c2, 2) THEN Speed(d1, max_speed) ELSE 0
    IN  IF pan_speed > 10000 THEN error(ERR_BAD_PAN, <<pan_speed>>)
        ELSE IF tilt_speed > 10000 THEN error(ERR_BAD_TILT, <<tilt_speed>>)
        ELSE success([addr |-> addr, type |-> TYPE_STANDARD, cmd |-> CmdString(c1, c2),
                      panSpeed |-> pan_speed, tiltSpeed |-> tilt_speed])

\* The standard-command branch of _parse.
ParseStandard(addr, c1, c2, d1, d2, max_speed) ==
    LET tilt_speed == IF Bit(c2, 16) \/ Bit(c2, 8) THEN Speed(d2, max_speed) ELSE 0
        pan_speed == IF Bit(c2, 4) \/ Bit(c2, 2) THEN Speed(d1, max_speed) ELSE 0
    IN  IF tilt_speed > 10000 THEN error(ERR_BAD_TILT, <<tilt_speed>>)
        ELSE IF pan_speed > 10000 THEN error(ERR_BAD_PAN, <<pan_speed>>)
        ELSE success([addr |-> addr, type |-> TYPE_STANDARD, cmd |-> CmdString(c1, c2),
                      panSpeed |-> pan_speed, tiltSpeed |-> tilt_speed])

\* The "data" value of an extended message that _parse wraps in a dict.
ExtendedValue(c2, d1, d2) ==
    LET v == Word(d1, d2)
    IN  IF c2 \in {EXT_CMD_SET_AUX, EXT_CMD_CLEAR_AUX, EXT_CMD_CLEAR_PRESET,
                   EXT_CMD_SET_PRESET, EXT_CMD_CALL_PRESET} THEN d2
        ELSE IF c2 = EXT_CMD_SET_PAN THEN v
        ELSE IF c2 = EXT_CMD_SET_TILT
             THEN IF v <= 9000 THEN -v
                  ELSE IF 27000 <= v /\ v <= 36000 THEN 36000 - v
                  ELSE v
        ELSE 100 * RoundHalfEven(v * 100, 65535)

\* The extended-command branch of _parse (c2 odd).
ParseExtended(addr, c1, c2, d1, d2) ==
    LET v == Word(d1, d2)
    IN  IF c2 = EXT_CMD_QUERY_PAN_RESPONSE THEN success([value |-> v])
        ELSE IF c2 = EXT_CMD_QUERY_TILT_RESPONSE
             THEN IF v <= 9000 THEN success([value |-> -v])
                  ELSE IF 27000 <= v /\ v <= 36000 THEN success([value |-> 36000 - v])
                  ELSE error(ERR_BAD_VALUE, <<>>)
        ELSE IF c2 \in {EXT_CMD_QUERY_ZOOM_RESPONSE, EXT_CMD_QUERY_MAGNIFICATION_RESPONSE}
             THEN success([value |-> RoundHalfEven(v * 10000, 65535)])
        ELSE success([addr |-> addr, type |-> TYPE_EXTENDED,
                      c1 |-> RoundHalfEven(c1 * 10000, EXTENDED_MAX_SPEED),
                      id |-> c2, data |-> ExtendedValue(c2, d1, d2)])

\* A plausible slip: the standard branch taken for c1 < 4 only.
ParseStrictBound(packet, raw, max_speed) ==
    LET addr == packet[ADDR_INDEX + 1]
        c1 == packet[CMD1_INDEX + 1]
        c2 == packet[CMD2_INDEX + 1]
        d1 == packet[DATA1_INDEX + 1]
        d2 == packet[DATA2_INDEX + 1]
    IN  IF raw THEN [raw |-> packet]
        ELSE IF c1 + c2 + d1 + d2 = 0 THEN success([addr |-> addr, type |-> TYPE_STOP])
        ELSE IF c1 < 4 /\ c2 % 2 = 0 THEN ParseStandard(addr, c1, c2, d1, d2, max_speed)
        ELSE IF c2 % 2 = 1 THEN ParseExtended(addr, c1, c2, d1, d2)
        ELSE success([addr |-> addr, type |-> TYPE_ALTERNATE,
                      c1 |-> c1, c2 |-> c2, d1 |-> d1, d2 |-> d2])

\* _parse of a 7-byte packet; in raw mode the packet itself.
Parse(packet, raw, max_speed) ==
    LET addr == packet[ADDR_INDEX + 1]
        c1 == packet[CMD1_INDEX + 1]
        c2 == packet[CMD2_INDEX + 1]
        d1 == packet[DATA1_INDEX + 1]
        d2 == packet[DATA2_INDEX + 1]
    IN  IF raw THEN [raw |-> packet]
        ELSE IF c1 + c2 + d1 + d2 = 0 THEN success([addr |-> addr, type |-> TYPE_STOP])
        ELSE IF c1 <= 4 /\ c2 % 2 = 0 THEN ParseStandard(addr, c1, c2, d1, d2, max_speed)
        ELSE IF c2 % 2 = 1 THEN ParseExtended(addr, c1, c2, d1, d2)
        ELSE success([addr |-> addr, type |-> TYPE_ALTERNATE,
                      c1 |-> c1, c2 |-> c2, d1 |-> d1, d2 |-> d2])

(***************************************************************************)
(* Framer: ingest                                                          *)
(***************************************************************************)
\* A plausible slip: the buffer is never cut to its bound.
RetainedNoCut(buf, data) == buf \o data

\* ingest, lines 320-322: append, then self._buffer[len(self._buffer) - 256:].
Retained(buf, data) ==
    PySliceFrom(buf \o data, Len(buf \o data) - max_buffer_size)

\* A plausible slip: an if where the while is, so that one packet is taken.
ScanOnce(buf, responses, raw, max_speed) ==
    LET found == FindPacket(buf)
    IN  IF found.match = <<>> THEN [buffer |-> buf, responses |-> responses]
        ELSE [buffer |-> PySliceFrom(buf, found.position[2]),
              responses |-> Append(responses, Parse(found.match, raw, max_speed))]

\* ingest's while loop: take the first packet, cut the buffer after it,
\* append its _parse, until _find_packet finds nothing.
RECURSIVE Scan(_, _, _, _)
Scan(buf, responses, raw, max_speed) ==
    LET found == FindPacket(buf)
    IN  IF found.match = <<>> THEN [buffer |-> buf, responses |-> responses]
        ELSE Scan(PySliceFrom(buf, found.position[2]),
                  Append(responses, Parse(found.match, raw, max_speed)),
                  raw, max_speed)

\* bytes.find(b'\xff'): the first index of 0xFF, or -1
FindSync(buf) ==
    IF \E i \in 1 .. Len(buf) : buf[i] = 255
    THEN (CHOOSE i \in 1 .. Len(buf) :
            buf[i] = 255 /\ \A j \in 1 .. (i - 1) : buf[j] # 255) - 1
    ELSE -1

\* ingest's last step: keep the buffer from its first 0xFF, or empty it.
DropGarbage(buf) ==
    LET i == FindSync(buf)
    IN  IF i >= 0 THEN PySliceFrom(buf, i) ELSE <<>>

\* A plausible slip: the discarding branch returns [] and leaves the buffer.
IngestKeepsBuffer(buf, data, mode_, queue_len, raw, max_speed) ==
    IF mode_ = NORMAL /\ queue_len = 0
    THEN [buffer |-> buf, responses |-> <<>>, scanned |-> <<>>, discarded |-> TRUE]
    ELSE LET kept == Retained(buf, data)
             done == Scan(kept, <<>>, raw, max_speed)
         IN  [buffer |-> DropGarbage(done.buffer), responses |-> done.responses,
              scanned |-> kept, discarded |-> FALSE]

\* ingest(data) on an instance whose buffer is buf: the new buffer, the list
\* returned, and the bytes that were scanned.
Ingest(buf, data, mode_, queue_len, raw, max_speed) ==
    IF mode_ = NORMAL /\ queue_len = 0
    THEN [buffer |-> <<>>, responses |-> <<>>, scanned |-> <<>>, discarded |-> TRUE]
    ELSE LET kept == Retained(buf, data)
             done == Scan(kept, <<>>, raw, max_speed)
         IN  [buffer |-> DropGarbage(done.buffer), responses |-> done.responses,
              scanned |-> kept, discarded |-> FALSE]


(***************************************************************************)
(* State                                                                   *)
(***************************************************************************)
VARIABLES
    \* the instance (PelcoDevice.__init__)
    mode,             \* self._mode
    raw,              \* self._raw
    buffer,           \* self._buffer
    command_queue,    \* self._command_queue
    active,           \* self._active
    connection_state, \* self.connection_state
    messages,         \* self._messages: a FIFO Queue of (expects_reply, data)
    responses,        \* self._responses: a FIFO Queue of responses
    callback_queue,   \* self._callback_queue: a list, index 0 first
    \* SpecCodec: one _command call and one _find_packet call
    c_pc,             \* "args", "built" or "found"
    c_fields,         \* <<address, cmd1, cmd2, data1, data2>>
    c_packet,         \* what _command returned
    c_found,          \* what _find_packet returned for it
    c_parsed,         \* what _parse returned for it (SpecDecode)
    c_call,           \* the encoder call that gave the fields (SpecEncode)
    \* SpecFramer: what the ingest calls so far were given and returned
    f_calls,          \* number of ingest calls made
    f_old,            \* the buffer before the last call
    f_data,           \* the argument of the last call
    f_parts,          \* <<garbage, packet, garbage2, packet2>> when the last
                      \* argument was built that way, else <<>>
    f_scanned,        \* the bytes the last call scanned
    f_returned,       \* the list the last call returned
    f_whole,          \* all arguments so far, concatenated
    f_msgs,           \* all returned lists so far, concatenated
    \* Spec: the threads and the channel of a NORMAL-mode instance
    loop_pc,          \* the serial thread: "start", "top", "get", "await", "exited"
    rx,               \* the bytes the channel holds for port.read
    t_pc,             \* each caller thread: "idle", "put", "register", "wait"
    t_op,             \* the operation each caller thread is in (0: none)
    \* Spec: what has happened (read by the claims only)
    op_count,         \* operations begun; an operation's number names it
    kind,             \* per operation: "send", "query", "query_cb" ("none": not begun)
    put_no,           \* per operation: its place in the order of puts (0: not put)
    put_count,        \* puts on the outgoing queue so far
    reg_no,           \* per operation: its place in the order of callback registrations
    reg_count,        \* callbacks registered so far
    tx,               \* the operations whose bytes were written, in write order
    in_flight,        \* the reply-expecting operation written and not yet resolved (0: none)
    resolved,         \* the operations the loop has resolved
    delivered,        \* per operation: the results its caller or callback received
    last_respond,     \* the last _respond call
    \* SpecLife: initialize and disconnect on the NORMAL-mode instance
    port,             \* self.port: "none", "open" or "closed"
    i_pc,             \* per initialize operation, its init thread: "none", "messages",
                      \* "messages_get", "responses", "responses_get", "connect",
                      \* "done", "crashed"
    disc_called,      \* disconnect() has been entered (read by the claims only)
    disc_returned,    \* disconnect() has returned (read by the claims only)
    flushed,          \* the operations whose message an init sequence removed
    \* SpecProxy: the read-only loop and the registered callbacks
    filters,          \* self._filters: a list of registrations [cb, reg]
    readers,          \* self._readers: a list of registrations [cb, reg]
    p_recv,           \* _readonly_loop: the messages of "for msg in recv" still to go
    p_idx,            \* _readonly_loop: the index of the list iterator in use
    reg_stamp,        \* register calls so far; a registration's number names it
    fed,              \* packets the peer has sent so far
    p_cur,            \* the delivery in progress or just over (read by the claims only)
    \* SpecConstruct: the module's DEFAULT_CONFIG and what __init__ copies from it
    default_config,   \* the dict DEFAULT_CONFIG of the module
    settings,         \* the instance's send_address, _timeout and _max_speed
    built,            \* instances constructed so far
    \* SpecRoute: which thread used the channel (read by the claims only)
    channel_use       \* [writer: per operation, the thread that wrote its bytes
                      \*  ("none", "caller" or "loop"); read_by: the threads that
                      \*  have called port.read]

queueVars == <<active, connection_state, messages, responses, callback_queue>>

instanceVars == <<mode, raw, buffer, command_queue, queueVars>>

threadVars == <<loop_pc, rx, t_pc, t_op>>

historyVars == <<op_count, kind, put_no, put_count, reg_no, reg_count, tx, in_flight,
                 resolved, delivered, last_respond>>

codecVars == <<c_pc, c_fields, c_packet, c_found, c_parsed, c_call>>

framerVars == <<f_calls, f_old, f_data, f_parts, f_scanned, f_returned, f_whole, f_msgs>>

lifeVars == <<port, i_pc, disc_called, disc_returned, flushed>>

proxyVars == <<filters, readers, p_recv, p_idx, reg_stamp, fed, p_cur>>

configVars == <<default_config, settings, built>>

routeVars == <<channel_use>>

vars == <<instanceVars, codecVars, framerVars, threadVars, historyVars, lifeVars, proxyVars,
          configVars, routeVars>>

\* No encoder call.
NoCall == [fn |-> "none", args |-> <<>>]

\* The state of the parts a specification does not use.
CodecIdle ==
    /\ c_pc = "idle"
    /\ c_fields = <<>>
    /\ c_packet = <<>>
    /\ c_found = [match |-> <<>>, position |-> <<>>]
    /\ c_parsed = NoneData
    /\ c_call = NoCall

FramerIdle ==
    /\ f_calls = 0
    /\ f_old = <<>>
    /\ f_data = <<>>
    /\ f_parts = <<>>
    /\ f_scanned = <<>>
    /\ f_returned = <<>>
    /\ f_whole = <<>>
    /\ f_msgs = <<>>

\* A plausible slip: only a PROXY instance starts CONNECTED.
StateAtConstructionProxyOnly(mode_) == IF mode_ = PROXY THEN CONNECTED ELSE DISCONNECTED

\* __init__, lines 76 and 101-102: a PROXY, VIRTUAL or WRITE_ONLY instance
\* starts CONNECTED, a NORMAL one DISCONNECTED.
StateAtConstruction(mode_) ==
    IF mode_ \in {PROXY, VIRTUAL, WRITE_ONLY} THEN CONNECTED ELSE DISCONNECTED

\* __init__, lines 76 and 101-119: the queues and lists are empty and the
\* loop is not active.
QueuesFresh ==
    /\ active = FALSE
    /\ connection_state = StateAtConstruction(mode)
    /\ messages = <<>>
    /\ responses = <<>>
    /\ callback_queue = <<>>

\* The largest number of operations the caller threads begin.
MaxOps == 2

Ops == 1 .. MaxOps

\* The caller threads.
NumCallers == 2

Callers == 1 .. NumCallers

NoRespond == [op |-> 0, response |-> NoneData, route |-> "none", callback |-> 0, pending |-> <<>>]

HistoryEmpty ==
    /\ op_count = 0
    /\ kind = [o \in Ops |-> "none"]
    /\ put_no = [o \in Ops |-> 0]
    /\ put_count = 0
    /\ reg_no = [o \in Ops |-> 0]
    /\ reg_count = 0
    /\ tx = <<>>
    /\ in_flight = 0
    /\ resolved = {}
    /\ delivered = [o \in Ops |-> <<>>]
    /\ last_respond = NoRespond
    /\ channel_use = [writer |-> [o \in Ops |-> "none"], read_by |-> {}]

\* What a delivery record holds before any delivery.
NoDelivery ==
    [done |-> FALSE, msg |-> NoneData, start_f |-> <<>>, start_r |-> <<>>,
     removed |-> {}, disturbed |-> FALSE, filters_called |-> <<>>,
     readers_called |-> <<>>, blocked_by |-> 0]

\* __init__, lines 108-111: no reader and no filter is registered.
ProxyFresh ==
    /\ filters = <<>>
    /\ readers = <<>>
    /\ p_recv = <<>>
    /\ p_idx = 0
    /\ reg_stamp = 0
    /\ fed = 0
    /\ p_cur = NoDelivery

\* One instance, constructed with its mode as configuration.
ConfigFresh ==
    /\ default_config = ConfigFor(mode)
    /\ settings = SettingsOf(default_config)
    /\ built = 1

\* No init thread has been started and disconnect has not been called.
LifeFresh ==
    /\ i_pc = [o \in Ops |-> "none"]
    /\ disc_called = FALSE
    /\ disc_returned = FALSE
    /\ flushed = {}

\* No serial thread, no caller, no channel.
ThreadsIdle ==
    /\ loop_pc = "none"
    /\ rx = <<>>
    /\ t_pc = [c \in Callers |-> "idle"]
    /\ t_op = [c \in Callers |-> 0]
    /\ port = "none"
    /\ LifeFresh
    /\ ProxyFresh
    /\ ConfigFresh
    /\ HistoryEmpty

(***************************************************************************)
(* SpecCodec: _command, then _find_packet on its result                    *)
(***************************************************************************)
\* Field values are sampled at both ends of the byte range and at values the
\* documentation uses.
ByteEdge == 2

ByteSamples == (0 .. ByteEdge) \cup ((255 - ByteEdge) .. 255) \cup {32, 128}

CodecInit ==
    /\ mode = PROXY /\ raw = FALSE /\ buffer = <<>> /\ command_queue = <<>>
    /\ QueuesFresh
    /\ ThreadsIdle
    /\ c_pc = "args"
    /\ c_fields \in ByteSamples \X ByteSamples \X ByteSamples \X ByteSamples \X ByteSamples
    /\ c_packet = <<>>
    /\ c_found = [match |-> <<>>, position |-> <<>>]
    /\ c_parsed = NoneData
    /\ c_call = NoCall
    /\ FramerIdle

CodecCommand ==
    /\ c_pc = "args"
    /\ c_packet' = Command(c_fields[1], c_fields[2], c_fields[3], c_fields[4], c_fields[5])
    /\ c_pc' = "built"
    /\ UNCHANGED <<configVars, routeVars, proxyVars, lifeVars, instanceVars, c_fields, c_found, c_parsed, c_call, framerVars, threadVars, historyVars>>

CodecFindPacket ==
    /\ c_pc = "built"
    /\ c_found' = FindPacket(c_packet)
    /\ c_pc' = "found"
    /\ UNCHANGED <<configVars, routeVars, proxyVars, lifeVars, instanceVars, c_fields, c_packet, c_parsed, c_call, framerVars, threadVars, historyVars>>

CodecNext == CodecCommand \/ CodecFindPacket

SpecCodec == CodecInit /\ [][CodecNext]_vars

(***************************************************************************)
(* SpecFramer: ingest calls on one instance                                *)
(***************************************************************************)
MaxCalls == 2

\* n copies of byte b
Fill(b, n) == [i \in 1 .. n |-> b]

\* encode(address=1, cmd1=0, cmd2=PAN_RIGHT, data1=32, data2=0): FF 01 00 02 20 00 23
Packet1 == Command(send_address, 0, 2, 32, 0)

\* a pan query response of 180.00 degrees
Packet2 == Command(send_address, 0, EXT_CMD_QUERY_PAN_RESPONSE, 70, 80)

\* Arguments of ingest: nothing, a lone sync byte, a packet, or part of one,
\* between two runs of a byte that completes no packet.  The run lengths put
\* the combined length below, inside and above the buffer bound.
Bodies == {<<>>, <<255>>, Packet1, Packet2, SubSeq(Packet1, 1, 3), SubSeq(Packet1, 4, 7)}

Inputs ==
    { b \o Fill(1, q) : b \in Bodies, q \in {0, 123, 255} }
        \cup { Fill(1, 2) \o <<255>> \o Fill(1, 255) }

\* Garbage runs: the documented two bytes, a run holding a sync byte, and a
\* long run.
Garbage == {<<0, 1>>, <<0, 255, 1>>, Fill(0, 123)}

\* An ingest call in discard mode keeps and returns nothing.
Discards == mode = NORMAL /\ Len(command_queue) = 0

FramerInit ==
    /\ mode \in Modes
    /\ raw \in BOOLEAN
    /\ buffer = <<>>
    /\ command_queue \in (IF mode = NORMAL THEN {<<>>, <<Command(send_address, 0, EXT_CMD_QUERY_PAN, 0, 0)>>}
                          ELSE {<<>>})
    /\ QueuesFresh
    /\ ThreadsIdle
    /\ CodecIdle
    /\ FramerIdle

\* One ingest(data) call, recorded.
IngestCall(data, parts) ==
    LET r == Ingest(buffer, data, mode, Len(command_queue), raw, MAX_SPEED)
    IN  /\ f_calls < MaxCalls
        /\ buffer' = r.buffer
        /\ f_calls' = f_calls + 1
        /\ f_old' = buffer
        /\ f_data' = data
        /\ f_parts' = parts
        /\ f_scanned' = r.scanned
        /\ f_returned' = r.responses
        /\ f_whole' = f_whole \o data
        /\ f_msgs' = f_msgs \o r.responses
        /\ UNCHANGED <<configVars, routeVars, proxyVars, lifeVars, mode, raw, command_queue, queueVars, codecVars, threadVars, historyVars>>

FramerIngest == \E data \in Inputs : IngestCall(data, <<>>)

\* ingest(garbage ++ packet ++ garbage2 ++ packet2) on an empty buffer
FramerIngestResync ==
    /\ buffer = <<>>
    /\ \E g \in Garbage, g2 \in Garbage :
          IngestCall(g \o Packet1 \o g2 \o Packet2, <<g, Packet1, g2, Packet2>>)

FramerNext == FramerIngest \/ FramerIngestResync

SpecFramer == FramerInit /\ [][FramerNext]_vars


(***************************************************************************)
(* Claims about the codec and the framer                                   *)
(***************************************************************************)
\* C1: the packet _command builds is the 7 bytes [0xFF, address, cmd1, cmd2,
\* data1, data2, (address+cmd1+cmd2+data1+data2) mod 256], and _find_packet
\* accepts those 7 bytes and gives back the same five fields.
C1_RoundTrip ==
    LET a == c_fields[1]
        c1 == c_fields[2]
        c2 == c_fields[3]
        d1 == c_fields[4]
        d2 == c_fields[5]
    IN  /\ c_pc \in {"built", "found"} =>
              c_packet = <<255, a, c1, c2, d1, d2, (a + c1 + c2 + d1 + d2) % 256>>
        /\ c_pc = "found" =>
              /\ c_found.match = c_packet
              /\ c_found.position = <<0, 7>>
              /\ <<c_found.match[ADDR_INDEX + 1], c_found.match[CMD1_INDEX + 1],
                   c_found.match[CMD2_INDEX + 1], c_found.match[DATA1_INDEX + 1],
                   c_found.match[DATA2_INDEX + 1]>> = c_fields

\* C1 witness: the documented example FF 01 00 02 20 00 23 has been built and
\* found again.
C1_Witness ==
    /\ c_pc = "found"
    /\ c_fields = <<1, 0, 2, 32, 0>>
    /\ c_found.match = <<255, 1, 0, 2, 32, 0, 35>>

\* Whether data holds a 0xFF-anchored 7-byte window that satisfies the checksum.
HasCollision(data) == PacketStarts(data) # {}

\* C2: from an empty buffer, outside discard mode, one ingest call on
\* garbage ++ packet ++ garbage2 ++ packet2 returns exactly the decode of packet
\* followed by the decode of packet2, whenever neither garbage run holds a
\* window that satisfies the checksum.
C2_Resync ==
    (/\ f_parts # <<>>
     /\ f_old = <<>>
     /\ ~Discards
     /\ ~HasCollision(f_parts[1])
     /\ ~HasCollision(f_parts[3]))
    => f_returned = <<Parse(f_parts[2], raw, MAX_SPEED), Parse(f_parts[4], raw, MAX_SPEED)>>

\* C3: outside discard mode, the lists returned by ingest on each chunk in
\* order, concatenated, are the list one ingest call returns for the whole
\* string from the same (empty) starting buffer.
C3_SplitEqualsWhole ==
    ~Discards =>
        f_msgs = Ingest(<<>>, f_whole, mode, Len(command_queue), raw, MAX_SPEED).responses

\* C4: after any sequence of ingest calls the buffer holds at most 256 bytes.
C4_BufferBounded == Len(buffer) <= max_buffer_size

\* C4 witness: a call whose combined length exceeded the bound left a full
\* buffer.
C4_Witness ==
    /\ f_calls > 0
    /\ Len(f_old) + Len(f_data) > max_buffer_size
    /\ Len(buffer) = max_buffer_size

\* C5: the bytes a call scans are the last min(n, 256) bytes of
\* old buffer ++ new bytes, n being the combined length.
C5_KeepsMostRecent ==
    (f_calls > 0 /\ ~Discards) =>
        f_scanned = LastN(f_old \o f_data, Min(Len(f_old) + Len(f_data), max_buffer_size))


(***************************************************************************)
(* Spec: a NORMAL-mode instance with a channel                             *)
(*                                                                         *)
(* The serial thread runs _read_write_loop; caller threads call a command  *)
(* (_write_data) or a query (_get_response), with or without a callback.   *)
(* A step is one access to state that threads share: a Queue put or get, a *)
(* list insert or pop, a read of connection_state.  What the serial thread *)
(* alone touches between two such accesses (the port, the buffer, the      *)
(* command queue) is part of the same step.                                *)
(*                                                                         *)
(* The channel: a write makes the device answer with a whole response      *)
(* packet, with the first bytes of one, or not at all; port.read(1) gives  *)
(* the next byte it holds and b'' (the read timeout) when it holds none.   *)
(***************************************************************************)
\* queue.Queue.put(item)
QueuePut(q, item) == Append(q, item)

\* A plausible slip: a LIFO queue.
QueueGetNewest(q) == [item |-> q[Len(q)], rest |-> SubSeq(q, 1, Len(q) - 1)]

\* queue.Queue.get(): the oldest item, and the queue without it
QueueGet(q) == [item |-> Head(q), rest |-> Tail(q)]

\* list.insert(0, x)
ListInsertFront(l, x) == <<x>> \o l

\* A plausible slip: taking index 0, where insert(0, x) put the newest.
ListPopFront(l) == [item |-> Head(l), rest |-> Tail(l)]

\* list.pop(): the last element, and the list without it
ListPop(l) == [item |-> l[Len(l)], rest |-> SubSeq(l, 1, Len(l) - 1)]

\* A plausible slip: only WRITE_ONLY and VIRTUAL write to the port themselves.
WritesDirectlyNoProxy(mode_) == mode_ \in {WRITE_ONLY, VIRTUAL}

\* _write_data, line 147: every mode but NORMAL writes to the port itself.
WritesDirectly(mode_) == mode_ # NORMAL

\* port.write(data) of operation o, made on thread who
WrittenBy(who, o) == [channel_use EXCEPT !.writer[o] = who]

\* port.read(1), made on thread who
ReadBy(who) == [channel_use EXCEPT !.read_by = @ \cup {who}]

\* A plausible slip: the loop never waits for the reply.
AfterWriteNoAwait(expects_reply) == "top"

\* _read_write_loop, lines 233-235: after a write the loop awaits the
\* response when one is expected, else returns to the top of its while.
AfterWrite(expects_reply) == IF expects_reply THEN "await" ELSE "top"

\* The bytes of a command (stop) and of a query (get_pan).
SendData == Command(send_address, 0, 0, 0, 0)

QueryData == Command(send_address, 0, EXT_CMD_QUERY_PAN, 0, 0)

\* The device's response to operation o: a pan response whose value is o/100
\* degrees, so that a parsed response names the request it answers.
Reply(o) == Command(send_address, 0, EXT_CMD_QUERY_PAN_RESPONSE, 0, o)

DeviceReplies(msg) ==
    IF msg.expects_reply
    THEN {<<>>, Reply(msg.op), SubSeq(Reply(msg.op), 1, 3)}
    ELSE {<<>>}

\* _respond(response) on the lists and queues in st (and what it resolves).
Respond(st, response) ==
    LET cq == IF mode = NORMAL /\ st.command_queue # <<>>
              THEN ListPop(st.command_queue).rest
              ELSE st.command_queue
        done == IF st.in_flight = 0 THEN st.resolved ELSE st.resolved \cup {st.in_flight}
    IN  IF st.callback_queue # <<>>
        THEN LET p == ListPop(st.callback_queue)
             IN  [st EXCEPT !.command_queue = cq,
                            !.callback_queue = p.rest,
                            !.delivered = [@ EXCEPT ![p.item] = Append(@, response)],
                            !.resolved = done,
                            !.in_flight = 0,
                            !.last_respond = [op |-> st.in_flight, response |-> response,
                                              route |-> "callback", callback |-> p.item,
                                              pending |-> st.callback_queue]]
        ELSE [st EXCEPT !.command_queue = cq,
                        !.responses = QueuePut(@, response),
                        !.resolved = done,
                        !.in_flight = 0,
                        !.last_respond = [op |-> st.in_flight, response |-> response,
                                          route |-> "queue", callback |-> 0,
                                          pending |-> st.callback_queue]]

\* _await_response, lines 249-253: _respond for each response in turn.
RECURSIVE RespondAll(_, _)
RespondAll(st, rs) ==
    IF rs = <<>> THEN st ELSE RespondAll(Respond(st, Head(rs)), Tail(rs))

\* What _respond reads and writes, as one record.
RespondState ==
    [command_queue |-> command_queue, callback_queue |-> callback_queue,
     responses |-> responses, delivered |-> delivered, resolved |-> resolved,
     in_flight |-> in_flight, last_respond |-> last_respond]

SetRespondState(st) ==
    /\ command_queue' = st.command_queue
    /\ callback_queue' = st.callback_queue
    /\ responses' = st.responses
    /\ delivered' = st.delivered
    /\ resolved' = st.resolved
    /\ in_flight' = st.in_flight
    /\ last_respond' = st.last_respond

Init ==
    /\ mode = NORMAL
    /\ raw = FALSE
    /\ buffer = <<>>
    /\ command_queue = <<>>
    /\ QueuesFresh
    /\ loop_pc = "start"
    /\ rx = <<>>
    /\ t_pc = [c \in Callers |-> "idle"]
    /\ t_op = [c \in Callers |-> 0]
    /\ port = "open"
    /\ LifeFresh
    /\ ProxyFresh
    /\ ConfigFresh
    /\ HistoryEmpty
    /\ CodecIdle
    /\ FramerIdle

\* ---- the serial thread ----

\* run, lines 304-312: self._active = True, then the loop of the mode; a
\* WRITE_ONLY or VIRTUAL instance has none and the thread ends.
LoopRun ==
    /\ loop_pc = "start"
    /\ active' = TRUE
    /\ loop_pc' = IF mode = PROXY THEN "read_top"
                  ELSE IF mode = NORMAL THEN "top"
                  ELSE "exited"
    /\ UNCHANGED <<configVars, routeVars, proxyVars, lifeVars, mode, raw, buffer, command_queue, connection_state, messages, responses,
                   callback_queue, codecVars, framerVars, rx, t_pc, t_op, historyVars>>

\* _read_write_loop: while self._active
LoopCheck ==
    /\ loop_pc = "top"
    /\ loop_pc' = IF active THEN "get" ELSE "exited"
    /\ UNCHANGED <<configVars, routeVars, proxyVars, lifeVars, instanceVars, codecVars, framerVars, rx, t_pc, t_op, historyVars>>

\* _read_write_loop, lines 220-235: take the next message; end on the kill
\* code; else reset the input buffer, write, and await when a reply is due.
LoopTake ==
    /\ loop_pc = "get"
    /\ messages # <<>>
    /\ LET msg == QueueGet(messages).item
       IN  /\ messages' = QueueGet(messages).rest
           /\ IF msg.data = KillData
              THEN /\ loop_pc' = "exited"
                   /\ UNCHANGED <<rx, tx, command_queue, in_flight, channel_use>>
              ELSE /\ \E reply \in DeviceReplies(msg) : rx' = reply
                   /\ tx' = Append(tx, msg.op)
                   /\ channel_use' = WrittenBy("loop", msg.op)
                   /\ command_queue' = IF msg.expects_reply
                                       THEN ListInsertFront(command_queue, msg.data)
                                       ELSE command_queue
                   /\ in_flight' = IF msg.expects_reply THEN msg.op ELSE in_flight
                   /\ loop_pc' = AfterWrite(msg.expects_reply)
    /\ UNCHANGED <<configVars, proxyVars, lifeVars, mode, raw, buffer, active, connection_state, responses, callback_queue,
                   codecVars, framerVars, t_pc, t_op, op_count, kind, put_no, put_count,
                   reg_no, reg_count, resolved, delivered, last_respond>>

\* _await_response, lines 239-243: the read times out
LoopReadTimeout ==
    /\ loop_pc = "await"
    /\ active
    /\ rx = <<>>
    /\ SetRespondState(Respond(RespondState, error(ERR_TIMEOUT, <<>>)))
    /\ loop_pc' = "top"
    /\ channel_use' = ReadBy("loop")
    /\ UNCHANGED <<configVars, proxyVars, lifeVars, mode, raw, buffer, active, connection_state, messages, codecVars, framerVars,
                   rx, t_pc, t_op, op_count, kind, put_no, put_count, reg_no, reg_count, tx>>

\* A plausible slip: the loop goes on awaiting after a response was resolved.
LoopReadByteKeepsAwaiting ==
    /\ loop_pc = "await"
    /\ active
    /\ rx # <<>>
    /\ rx' = Tail(rx)
    /\ LET r == Ingest(buffer, <<Head(rx)>>, mode, Len(command_queue), raw, MAX_SPEED)
           st == RespondAll(RespondState, r.responses)
       IN  /\ buffer' = r.buffer
           /\ SetRespondState(st)
           /\ loop_pc' = "await"
    /\ channel_use' = ReadBy("loop")
    /\ UNCHANGED <<configVars, proxyVars, lifeVars, mode, raw, active, connection_state, messages, codecVars, framerVars,
                   t_pc, t_op, op_count, kind, put_no, put_count, reg_no, reg_count, tx>>

\* _await_response, lines 239-254: a byte is read and ingested
LoopReadByte ==
    /\ loop_pc = "await"
    /\ active
    /\ rx # <<>>
    /\ rx' = Tail(rx)
    /\ LET r == Ingest(buffer, <<Head(rx)>>, mode, Len(command_queue), raw, MAX_SPEED)
           st == RespondAll(RespondState, r.responses)
       IN  /\ buffer' = r.buffer
           /\ SetRespondState(st)
           /\ loop_pc' = IF r.responses = <<>> THEN "await" ELSE "top"
    /\ channel_use' = ReadBy("loop")
    /\ UNCHANGED <<configVars, proxyVars, lifeVars, mode, raw, active, connection_state, messages, codecVars, framerVars,
                   t_pc, t_op, op_count, kind, put_no, put_count, reg_no, reg_count, tx>>

\* ---- the caller threads ----

\* Caller c begins operation op_count + 1, of kind k.
BeginOp(c, k) ==
    /\ t_pc[c] = "idle"
    /\ op_count < MaxOps
    /\ op_count' = op_count + 1
    /\ kind' = [kind EXCEPT ![op_count + 1] = k]

\* A command (stop): _write_data(self._command(0, 0, 0, 0)).  Without a port
\* the bytes are printed and nothing else happens.
CallSend(c) ==
    /\ BeginOp(c, "send")
    /\ IF port = "none"
       THEN UNCHANGED <<tx, messages, put_no, put_count, channel_use>>
       ELSE IF WritesDirectly(mode)
       THEN /\ tx' = Append(tx, op_count + 1)
            /\ channel_use' = WrittenBy("caller", op_count + 1)
            /\ UNCHANGED <<messages, put_no, put_count>>
       ELSE /\ messages' = QueuePut(messages, [op |-> op_count + 1, expects_reply |-> FALSE,
                                               data |-> SendData])
            /\ put_no' = [put_no EXCEPT ![op_count + 1] = put_count + 1]
            /\ put_count' = put_count + 1
            /\ UNCHANGED <<tx, channel_use>>
    /\ UNCHANGED <<configVars, proxyVars, lifeVars, mode, raw, buffer, command_queue, active, connection_state, responses,
                   callback_queue, codecVars, framerVars, threadVars, reg_no, reg_count,
                   in_flight, resolved, delivered, last_respond>>

\* _get_response, lines 635-640: the state check.  An INITIALIZING instance
\* answers not-ready; with a callback the call then goes on to the put.
CallQuery(c, with_callback) ==
    /\ BeginOp(c, IF with_callback THEN "query_cb" ELSE "query")
    /\ IF connection_state = INITIALIZING
       THEN /\ delivered' = [delivered EXCEPT ![op_count + 1] =
                                Append(@, error(ERR_NOT_READY, <<>>))]
            /\ t_pc' = [t_pc EXCEPT ![c] = IF with_callback THEN "put" ELSE "idle"]
            /\ t_op' = [t_op EXCEPT ![c] = IF with_callback THEN op_count + 1 ELSE 0]
       ELSE /\ t_pc' = [t_pc EXCEPT ![c] = "put"]
            /\ t_op' = [t_op EXCEPT ![c] = op_count + 1]
            /\ UNCHANGED delivered
    /\ UNCHANGED <<configVars, routeVars, proxyVars, lifeVars, instanceVars, codecVars, framerVars, loop_pc, rx, put_no, put_count,
                   reg_no, reg_count, tx, in_flight, resolved, last_respond>>

\* _get_response, line 642: self._messages.put((True, data))
QueryPut(c) ==
    /\ t_pc[c] = "put"
    /\ messages' = QueuePut(messages, [op |-> t_op[c], expects_reply |-> TRUE,
                                       data |-> QueryData])
    /\ put_no' = [put_no EXCEPT ![t_op[c]] = put_count + 1]
    /\ put_count' = put_count + 1
    /\ t_pc' = [t_pc EXCEPT ![c] = IF kind[t_op[c]] = "query_cb" THEN "register" ELSE "wait"]
    /\ UNCHANGED <<configVars, routeVars, proxyVars, lifeVars, mode, raw, buffer, command_queue, active, connection_state, responses,
                   callback_queue, codecVars, framerVars, loop_pc, rx, t_op, op_count, kind,
                   reg_no, reg_count, tx, in_flight, resolved, delivered, last_respond>>

\* _get_response, lines 644-646: self._callback_queue.insert(0, callback); return
QueryRegister(c) ==
    /\ t_pc[c] = "register"
    /\ callback_queue' = ListInsertFront(callback_queue, t_op[c])
    /\ reg_no' = [reg_no EXCEPT ![t_op[c]] = reg_count + 1]
    /\ reg_count' = reg_count + 1
    /\ t_pc' = [t_pc EXCEPT ![c] = "idle"]
    /\ t_op' = [t_op EXCEPT ![c] = 0]
    /\ UNCHANGED <<configVars, routeVars, proxyVars, lifeVars, mode, raw, buffer, command_queue, active, connection_state, messages,
                   responses, codecVars, framerVars, loop_pc, rx, op_count, kind, put_no,
                   put_count, tx, in_flight, resolved, delivered, last_respond>>

\* _get_response, lines 648-649: return self._responses.get(block=True)
QueryWait(c) ==
    /\ t_pc[c] = "wait"
    /\ responses # <<>>
    /\ responses' = QueueGet(responses).rest
    /\ delivered' = [delivered EXCEPT ![t_op[c]] = Append(@, QueueGet(responses).item)]
    /\ t_pc' = [t_pc EXCEPT ![c] = "idle"]
    /\ t_op' = [t_op EXCEPT ![c] = 0]
    /\ UNCHANGED <<configVars, routeVars, proxyVars, lifeVars, mode, raw, buffer, command_queue, active, connection_state, messages,
                   callback_queue, codecVars, framerVars, loop_pc, rx, op_count, kind, put_no,
                   put_count, reg_no, reg_count, tx, in_flight, resolved, last_respond>>

Next ==
    \/ LoopRun
    \/ LoopCheck
    \/ LoopTake
    \/ LoopReadTimeout
    \/ LoopReadByte
    \/ \E c \in Callers : CallSend(c)
    \/ \E c \in Callers : CallQuery(c, FALSE)
    \/ \E c \in Callers : CallQuery(c, TRUE)
    \/ \E c \in Callers : QueryPut(c)
    \/ \E c \in Callers : QueryRegister(c)
    \/ \E c \in Callers : QueryWait(c)

Spec == Init /\ [][Next]_vars


(***************************************************************************)
(* Claims about the NORMAL-mode loop                                       *)
(***************************************************************************)
\* C6: while a reply-expecting request has been written and is not yet
\* resolved (by a response or a timeout), no step writes to the channel.
C6_SingleFlight == [][in_flight # 0 => tx' = tx]_vars

\* C6 witness: a request is outstanding while another message waits on the
\* outgoing queue.
C6_Witness ==
    /\ in_flight # 0
    /\ loop_pc = "await"
    /\ messages # <<>>

\* The timeout error _await_response passes to _respond.
TimeoutError == error(ERR_TIMEOUT, <<>>)

\* C7: when the read times out while a reply is awaited, the caller of the
\* request in flight is the one resolved with the timeout error (its callback
\* is invoked, or the error is queued for it when it blocks), and the loop is
\* back at its outgoing queue.
C7_TimeoutResolvesPending ==
    (last_respond.route # "none" /\ last_respond.response = TimeoutError) =>
        /\ last_respond.op # 0
        /\ kind[last_respond.op] = "query_cb" =>
              (last_respond.route = "callback" /\ last_respond.callback = last_respond.op)
        /\ kind[last_respond.op] = "query" => last_respond.route = "queue"
        /\ in_flight = 0 => loop_pc \in {"top", "get"}

\* C8: messages are written in the order in which they were put on the
\* outgoing queue.
C8_WriteOrder ==
    \A i, j \in 1 .. Len(tx) : i < j => put_no[tx[i]] < put_no[tx[j]]

\* C8 witness: two messages were written, the one begun later first because it
\* was put first.
C8_Witness ==
    /\ Len(tx) = 2
    /\ tx[1] > tx[2]
    /\ put_no[tx[1]] < put_no[tx[2]]

\* C9 as claimed: with several callbacks pending, the callback invoked for a
\* response is the one registered last.
C9_NewestCallbackFirst ==
    (last_respond.route = "callback" /\ Len(last_respond.pending) >= 2) =>
        \A i \in 1 .. Len(last_respond.pending) :
            reg_no[last_respond.pending[i]] <= reg_no[last_respond.callback]

\* C9 as amended: the callback invoked for a response is the one registered
\* first among those pending.
C9_OldestCallbackFirst ==
    last_respond.route = "callback" =>
        \A i \in 1 .. Len(last_respond.pending) :
            reg_no[last_respond.callback] <= reg_no[last_respond.pending[i]]

\* C9 witness: a response was resolved while two callbacks were pending.
C9_Witness ==
    /\ last_respond.route = "callback"
    /\ Len(last_respond.pending) >= 2

\* C10: the callback of a callback query is never invoked twice, and once the
\* loop has resolved the query's request it has been invoked exactly once.
C10_CallbackExactlyOnce ==
    \A o \in Ops :
        kind[o] = "query_cb" =>
            /\ Len(delivered[o]) <= 1
            /\ o \in resolved => Len(delivered[o]) = 1

(***************************************************************************)
(* SpecLife: the NORMAL-mode instance with initialize and disconnect       *)
(*                                                                         *)
(* The threads of Spec, and callers that also call initialize(callback)    *)
(* and disconnect().  initialize starts an init thread (_init_sequence),   *)
(* which empties both Queues with empty() / get_nowait() pairs, sets       *)
(* CONNECTED and calls the callback.  Each read or write of                *)
(* connection_state, of _active and of a Queue is a step of its own.       *)
(***************************************************************************)
\* A plausible slip: an init sequence that leaves the outgoing queue alone.
InitKeepsMessages(q) == FALSE

\* _init_sequence, line 294: while not self._messages.empty()
InitFlushes(q) == q # <<>>

\* A plausible slip: disconnect does not wait for the serial thread.
JoinedNoWait(pc) == TRUE

\* disconnect, lines 161-162: is_alive() is false, or join() has returned
Joined(pc) == pc = "exited"

\* initialize, lines 275-283: a mode other than NORMAL is connected at once;
\* an INITIALIZING instance refuses; else the call goes on to line 287.
CallInitialize(c) ==
    /\ BeginOp(c, "init")
    /\ IF mode # NORMAL
       THEN /\ connection_state' = CONNECTED
            /\ delivered' = [delivered EXCEPT ![op_count + 1] = Append(@, success(NoneData))]
            /\ UNCHANGED <<t_pc, t_op>>
       ELSE IF connection_state = INITIALIZING
       THEN /\ delivered' = [delivered EXCEPT ![op_count + 1] =
                                Append(@, error(ERR_NOT_READY, <<>>))]
            /\ UNCHANGED <<connection_state, t_pc, t_op>>
       ELSE /\ t_pc' = [t_pc EXCEPT ![c] = "init_set"]
            /\ t_op' = [t_op EXCEPT ![c] = op_count + 1]
            /\ UNCHANGED <<connection_state, delivered>>
    /\ UNCHANGED <<configVars, routeVars, proxyVars, mode, raw, buffer, command_queue, active, messages, responses,
                   callback_queue, codecVars, framerVars, loop_pc, rx, put_no, put_count,
                   reg_no, reg_count, tx, in_flight, resolved, last_respond, lifeVars>>

\* initialize, lines 287-290: set INITIALIZING and start the init thread
InitializeStart(c) ==
    /\ t_pc[c] = "init_set"
    /\ connection_state' = INITIALIZING
    /\ i_pc' = [i_pc EXCEPT ![t_op[c]] = "messages"]
    /\ t_pc' = [t_pc EXCEPT ![c] = "idle"]
    /\ t_op' = [t_op EXCEPT ![c] = 0]
    /\ UNCHANGED <<configVars, routeVars, proxyVars, mode, raw, buffer, command_queue, active, messages, responses,
                   callback_queue, codecVars, framerVars, loop_pc, rx, historyVars,
                   port, disc_called, disc_returned, flushed>>

\* _init_sequence, line 294: while not self._messages.empty()
InitMessagesEmpty(o) ==
    /\ i_pc[o] = "messages"
    /\ i_pc' = [i_pc EXCEPT ![o] = IF InitFlushes(messages) THEN "messages_get"
                                   ELSE "responses"]
    /\ UNCHANGED <<configVars, routeVars, proxyVars, instanceVars, codecVars, framerVars, threadVars, historyVars,
                   port, disc_called, disc_returned, flushed>>

\* _init_sequence, line 295: self._messages.get_nowait(), which raises Empty
\* (and ends the thread) when the serial thread took the message first
InitMessagesGet(o) ==
    /\ i_pc[o] = "messages_get"
    /\ IF messages = <<>>
       THEN /\ i_pc' = [i_pc EXCEPT ![o] = "crashed"]
            /\ UNCHANGED <<messages, flushed>>
       ELSE /\ messages' = QueueGet(messages).rest
            /\ flushed' = flushed \cup {QueueGet(messages).item.op}
            /\ i_pc' = [i_pc EXCEPT ![o] = "messages"]
    /\ UNCHANGED <<configVars, routeVars, proxyVars, mode, raw, buffer, command_queue, active, connection_state, responses,
                   callback_queue, codecVars, framerVars, threadVars, historyVars,
                   port, disc_called, disc_returned>>

\* _init_sequence, line 296: while not self._responses.empty()
InitResponsesEmpty(o) ==
    /\ i_pc[o] = "responses"
    /\ i_pc' = [i_pc EXCEPT ![o] = IF responses # <<>> THEN "responses_get" ELSE "connect"]
    /\ UNCHANGED <<configVars, routeVars, proxyVars, instanceVars, codecVars, framerVars, threadVars, historyVars,
                   port, disc_called, disc_returned, flushed>>

\* _init_sequence, line 297: self._responses.get_nowait(), which raises Empty
\* when a blocked query took the response first
InitResponsesGet(o) ==
    /\ i_pc[o] = "responses_get"
    /\ IF responses = <<>>
       THEN /\ i_pc' = [i_pc EXCEPT ![o] = "crashed"]
            /\ UNCHANGED responses
       ELSE /\ responses' = QueueGet(responses).rest
            /\ i_pc' = [i_pc EXCEPT ![o] = "responses"]
    /\ UNCHANGED <<configVars, routeVars, proxyVars, mode, raw, buffer, command_queue, active, connection_state, messages,
                   callback_queue, codecVars, framerVars, threadVars, historyVars,
                   port, disc_called, disc_returned, flushed>>

\* _init_sequence, lines 300-302: set CONNECTED and call the callback
InitConnect(o) ==
    /\ i_pc[o] = "connect"
    /\ connection_state' = CONNECTED
    /\ delivered' = [delivered EXCEPT ![o] = Append(@, success(NoneData))]
    /\ i_pc' = [i_pc EXCEPT ![o] = "done"]
    /\ UNCHANGED <<configVars, routeVars, proxyVars, mode, raw, buffer, command_queue, active, messages, responses,
                   callback_queue, codecVars, framerVars, threadVars, op_count, kind, put_no,
                   put_count, reg_no, reg_count, tx, in_flight, resolved, last_respond,
                   port, disc_called, disc_returned, flushed>>

\* disconnect, line 158: self.connection_state = DISCONNECTED
CallDisconnect(c) ==
    /\ BeginOp(c, "disconnect")
    /\ connection_state' = DISCONNECTED
    /\ disc_called' = TRUE
    /\ t_pc' = [t_pc EXCEPT ![c] = "disc_active"]
    /\ t_op' = [t_op EXCEPT ![c] = op_count + 1]
    /\ UNCHANGED <<configVars, routeVars, proxyVars, mode, raw, buffer, command_queue, active, messages, responses,
                   callback_queue, codecVars, framerVars, loop_pc, rx, put_no, put_count,
                   reg_no, reg_count, tx, in_flight, resolved, delivered, last_respond,
                   port, i_pc, disc_returned, flushed>>

\* disconnect, line 159: self._active = False
DisconnectActive(c) ==
    /\ t_pc[c] = "disc_active"
    /\ active' = FALSE
    /\ t_pc' = [t_pc EXCEPT ![c] = "disc_put"]
    /\ UNCHANGED <<configVars, routeVars, proxyVars, mode, raw, buffer, command_queue, connection_state, messages, responses,
                   callback_queue, codecVars, framerVars, loop_pc, rx, t_op, historyVars,
                   lifeVars>>

\* disconnect, line 160: self._messages.put((False, KILL_CODE))
DisconnectPut(c) ==
    /\ t_pc[c] = "disc_put"
    /\ messages' = QueuePut(messages, [op |-> t_op[c], expects_reply |-> FALSE,
                                       data |-> KillData])
    /\ t_pc' = [t_pc EXCEPT ![c] = "disc_join"]
    /\ UNCHANGED <<configVars, routeVars, proxyVars, mode, raw, buffer, command_queue, active, connection_state, responses,
                   callback_queue, codecVars, framerVars, loop_pc, rx, t_op, historyVars,
                   lifeVars>>

\* disconnect, lines 161-164: without a port there is no serial thread and
\* is_alive() raises AttributeError; else wait until the serial thread has
\* ended, then close the port if it is open
DisconnectJoin(c) ==
    /\ t_pc[c] = "disc_join"
    /\ IF port = "none"
       THEN /\ t_pc' = [t_pc EXCEPT ![c] = "raised"]
            /\ UNCHANGED <<t_op, port, disc_returned>>
       ELSE /\ Joined(loop_pc)
            /\ port' = "closed"
            /\ disc_returned' = TRUE
            /\ t_pc' = [t_pc EXCEPT ![c] = "idle"]
            /\ t_op' = [t_op EXCEPT ![c] = 0]
    /\ UNCHANGED <<configVars, routeVars, proxyVars, instanceVars, codecVars, framerVars, loop_pc, rx, historyVars,
                   i_pc, disc_called, flushed>>

\* _await_response, line 238: while self._active fails after a disconnect,
\* and the loop is back at its own while without a result for the request
LoopAwaitStop ==
    /\ loop_pc = "await"
    /\ ~active
    /\ loop_pc' = "top"
    /\ UNCHANGED <<instanceVars, codecVars, framerVars, rx, t_pc, t_op, historyVars,
                   lifeVars, proxyVars, configVars, routeVars>>

LifeNext ==
    \/ Next
    \/ LoopAwaitStop
    \/ \E c \in Callers : CallInitialize(c)
    \/ \E c \in Callers : InitializeStart(c)
    \/ \E o \in Ops : InitMessagesEmpty(o)
    \/ \E o \in Ops : InitMessagesGet(o)
    \/ \E o \in Ops : InitResponsesEmpty(o)
    \/ \E o \in Ops : InitResponsesGet(o)
    \/ \E o \in Ops : InitConnect(o)
    \/ \E c \in Callers : CallDisconnect(c)
    \/ \E c \in Callers : DisconnectActive(c)
    \/ \E c \in Callers : DisconnectPut(c)
    \/ \E c \in Callers : DisconnectJoin(c)

SpecLife == Init /\ [][LifeNext]_vars

(***************************************************************************)
(* Claims about request/response pairing and the life cycle                *)
(***************************************************************************)
\* C11: every result goes to the caller of the request it answers: a parsed
\* response received for a query is the response to that query, the callback
\* _respond invokes is the callback of the request in flight, and a result is
\* put on the response queue only when the request in flight is a blocking
\* query.
C11_Pairing ==
    /\ \A o \in Ops : \A i \in 1 .. Len(delivered[o]) :
           (kind[o] \in {"query", "query_cb"} /\ delivered[o][i].success) =>
               delivered[o][i] = Parse(Reply(o), raw, MAX_SPEED)
    /\ last_respond.route = "callback" => last_respond.callback = last_respond.op
    /\ last_respond.route = "queue" => kind[last_respond.op] = "query"

\* Scheduling: a thread that can take its next step is eventually run.  This
\* holds of the serial thread, of the init threads and of a caller inside a
\* call; nothing obliges a caller to begin a call.
LoopStep ==
    \/ LoopRun \/ LoopCheck \/ LoopTake \/ LoopReadTimeout \/ LoopReadByte
    \/ LoopAwaitStop

\* The next step of a caller inside a call.
CallerStep(c) ==
    \/ QueryPut(c) \/ QueryRegister(c) \/ QueryWait(c)
    \/ InitializeStart(c)
    \/ DisconnectActive(c) \/ DisconnectPut(c) \/ DisconnectJoin(c)

\* The next step of the init thread of operation o.
InitStep(o) ==
    \/ InitMessagesEmpty(o) \/ InitMessagesGet(o)
    \/ InitResponsesEmpty(o) \/ InitResponsesGet(o)
    \/ InitConnect(o)

LifeFairness ==
    /\ WF_vars(LoopStep)
    /\ \A c \in Callers : WF_vars(CallerStep(c))
    /\ \A o \in Ops : WF_vars(InitStep(o))

FairSpecLife == SpecLife /\ LifeFairness

\* After a write the channel holds a whole response packet or nothing: the
\* bytes still to be read and the bytes already buffered make up a packet.
ChannelProper == Len(rx) + Len(buffer) \in {0, COMMAND_SIZE}

\* C12: as long as disconnect is never called and the channel answers each
\* write with a whole packet or with silence, every caller blocked in a
\* query without callback eventually returns.
C12_BlockingQueryReturns ==
    [](~disc_called /\ ChannelProper) =>
        \A c \in Callers : (t_pc[c] = "wait") ~> (t_pc[c] = "idle")

\* The operations whose message is on the outgoing queue.
Queued == { messages[i].op : i \in 1 .. Len(messages) }

\* C13: a message handed to a command or a query is written exactly once: no
\* operation's bytes are written twice, and a message that was put and is not
\* yet written is still on the outgoing queue.
C13_ExactlyOneWrite ==
    /\ \A i, j \in 1 .. Len(tx) : tx[i] = tx[j] => i = j
    /\ \A o \in Ops :
          (kind[o] \in {"send", "query", "query_cb"} /\ put_no[o] # 0) =>
              (o \in Queued \/ \E i \in 1 .. Len(tx) : tx[i] = o)

(***************************************************************************)
(* SpecProxy: a PROXY-mode instance                                        *)
(*                                                                         *)
(* The serial thread runs _readonly_loop: it reads the port byte by byte   *)
(* (without timeout: __init__ line 99), ingests, and offers each message   *)
(* to the filters and then to the readers.  Callers register and           *)
(* unregister callbacks and call disconnect.  A "for x in list" loop keeps *)
(* an index into the list and looks at the list again at every round, so   *)
(* each round is a step, and a register or unregister call may come        *)
(* between two rounds.                                                     *)
(***************************************************************************)
\* The largest number of register calls.
MaxRegs == 3

\* The largest number of packets the peer sends.
MaxPackets == 1

\* The callbacks a caller may register: as a filter, "pass" returns False
\* for every message and "consume" returns True.
CallbackIds == {"pass", "consume"}

\* What a filter callback returns.
Consumes(cb, msg) == cb = "consume"

\* A tilt response whose value is outside both ranges: _parse gives an error.
BadTiltReply == Command(send_address, 0, EXT_CMD_QUERY_TILT_RESPONSE, 39, 16)

\* What the peer sends.
ProxyPackets == {Packet1, BadTiltReply}

\* A plausible slip: registering at the front of the list.
ListAppendFront(l, x) == <<x>> \o l

\* list.append(x)
ListAppend(l, x) == Append(l, x)

\* The index of the first registration of callback cb in list l (0: none).
FirstIndex(l, cb) ==
    IF \E i \in 1 .. Len(l) : l[i].cb = cb
    THEN CHOOSE i \in 1 .. Len(l) : l[i].cb = cb /\ \A j \in 1 .. (i - 1) : l[j].cb # cb
    ELSE 0

\* list.remove(x): the list without the element at index i
ListRemoveAt(l, i) == SubSeq(l, 1, i - 1) \o SubSeq(l, i + 1, Len(l))

\* Whether the loop is offering a message to the filters or the readers.
Delivering == loop_pc \in {"filters", "readers"}

\* The record of a delivery that begins now.
StartDelivery(msg) ==
    [done |-> FALSE, msg |-> msg, start_f |-> filters, start_r |-> readers,
     removed |-> {}, disturbed |-> FALSE, filters_called |-> <<>>,
     readers_called |-> <<>>, blocked_by |-> 0]

\* _readonly_loop, lines 196-200: the next message of "for msg in recv";
\* filters see it when it is a success, and the instance is not raw.
BeginMsg(recv) ==
    /\ p_recv' = recv
    /\ p_idx' = 0
    /\ p_cur' = StartDelivery(Head(recv))
    /\ loop_pc' = IF ~raw /\ Head(recv).success THEN "filters" ELSE "readers"

\* _readonly_loop: the delivery recorded in cur is over.
EndMsg(cur) ==
    /\ p_cur' = [cur EXCEPT !.done = TRUE]
    /\ loop_pc' = "delivered"
    /\ UNCHANGED <<configVars, routeVars, p_recv, p_idx>>

\* _readonly_loop, line 184: while self._active
ProxyCheck ==
    /\ loop_pc = "read_top"
    /\ loop_pc' = IF active THEN "read" ELSE "exited"
    /\ UNCHANGED <<configVars, routeVars, instanceVars, codecVars, framerVars, rx, t_pc, t_op, historyVars,
                   lifeVars, proxyVars>>

\* _readonly_loop, lines 185-196: read(1) returns when the port holds a byte;
\* ingest it, and deliver what it returns
ProxyRead ==
    /\ loop_pc = "read"
    /\ rx # <<>>
    /\ rx' = Tail(rx)
    /\ LET r == Ingest(buffer, <<Head(rx)>>, mode, Len(command_queue), raw, MAX_SPEED)
       IN  /\ buffer' = r.buffer
           /\ IF r.responses = <<>>
              THEN /\ loop_pc' = "read_top"
                   /\ UNCHANGED <<p_recv, p_idx, p_cur>>
              ELSE BeginMsg(r.responses)
    /\ channel_use' = ReadBy("loop")
    /\ UNCHANGED <<configVars, mode, raw, command_queue, queueVars, codecVars, framerVars, t_pc, t_op,
                   historyVars, lifeVars, filters, readers, reg_stamp, fed>>

\* _readonly_loop, lines 202-207: one round of "for filt in self._filters"
ProxyFilter ==
    /\ loop_pc = "filters"
    /\ IF p_idx < Len(filters)
       THEN LET filt == filters[p_idx + 1]
                cur == [p_cur EXCEPT !.filters_called = Append(@, filt)]
            IN  IF Consumes(filt.cb, p_cur.msg)
                THEN EndMsg([cur EXCEPT !.blocked_by = filt.reg])
                ELSE /\ p_idx' = p_idx + 1
                     /\ p_cur' = cur
                     /\ UNCHANGED <<loop_pc, p_recv>>
       ELSE /\ loop_pc' = "readers"
            /\ p_idx' = 0
            /\ UNCHANGED <<p_recv, p_cur>>
    /\ UNCHANGED <<configVars, routeVars, instanceVars, codecVars, framerVars, rx, t_pc, t_op, historyVars,
                   lifeVars, filters, readers, reg_stamp, fed>>

\* _readonly_loop, lines 210-213: one round of "for reader in self._readers"
ProxyReader ==
    /\ loop_pc = "readers"
    /\ IF p_idx < Len(readers)
       THEN LET reader == readers[p_idx + 1]
                skip == ~raw /\ ~p_cur.msg.success /\ p_cur.msg.error.code = ERR_SYNC
            IN  /\ p_idx' = p_idx + 1
                /\ p_cur' = IF skip THEN p_cur
                            ELSE [p_cur EXCEPT !.readers_called = Append(@, reader)]
                /\ UNCHANGED <<loop_pc, p_recv>>
       ELSE EndMsg(p_cur)
    /\ UNCHANGED <<configVars, routeVars, instanceVars, codecVars, framerVars, rx, t_pc, t_op, historyVars,
                   lifeVars, filters, readers, reg_stamp, fed>>

\* _readonly_loop, line 196: the next round of "for msg in recv", or back to
\* the while when there is no further message
ProxyNextMsg ==
    /\ loop_pc = "delivered"
    /\ IF Tail(p_recv) = <<>>
       THEN /\ p_recv' = <<>>
            /\ p_idx' = 0
            /\ p_cur' = NoDelivery
            /\ loop_pc' = "read_top"
       ELSE BeginMsg(Tail(p_recv))
    /\ UNCHANGED <<configVars, routeVars, instanceVars, codecVars, framerVars, rx, t_pc, t_op, historyVars,
                   lifeVars, filters, readers, reg_stamp, fed>>

\* The peer sends a packet, once the port holds nothing of the one before.
ProxyFeed ==
    /\ fed < MaxPackets
    /\ port = "open"
    /\ rx = <<>>
    /\ fed' = fed + 1
    /\ \E pkt \in ProxyPackets : rx' = rx \o pkt
    /\ UNCHANGED <<configVars, routeVars, instanceVars, codecVars, framerVars, loop_pc, t_pc, t_op, historyVars,
                   lifeVars, filters, readers, p_recv, p_idx, reg_stamp, p_cur>>

\* A caller thread is free to make a call.
SomeCallerIdle == \E c \in Callers : t_pc[c] = "idle"

\* The delivery in progress, after a register call.
Disturbed == IF Delivering THEN [p_cur EXCEPT !.disturbed = TRUE] ELSE p_cur

\* The delivery in progress, after registration reg was removed.
DisturbedBy(reg) ==
    IF Delivering THEN [p_cur EXCEPT !.disturbed = TRUE, !.removed = @ \cup {reg}]
    ELSE p_cur

\* register_filter(callback)
RegisterFilter(cb) ==
    /\ SomeCallerIdle
    /\ reg_stamp < MaxRegs
    /\ reg_stamp' = reg_stamp + 1
    /\ filters' = ListAppend(filters, [cb |-> cb, reg |-> reg_stamp + 1])
    /\ p_cur' = Disturbed
    /\ UNCHANGED <<configVars, routeVars, instanceVars, codecVars, framerVars, threadVars, historyVars, lifeVars,
                   readers, p_recv, p_idx, fed>>

\* unregister_filter(callback), for a registered callback
UnregisterFilter(cb) ==
    /\ SomeCallerIdle
    /\ FirstIndex(filters, cb) # 0
    /\ filters' = ListRemoveAt(filters, FirstIndex(filters, cb))
    /\ p_cur' = DisturbedBy(filters[FirstIndex(filters, cb)].reg)
    /\ UNCHANGED <<configVars, routeVars, instanceVars, codecVars, framerVars, threadVars, historyVars, lifeVars,
                   readers, p_recv, p_idx, reg_stamp, fed>>

\* register_reader(callback)
RegisterReader(cb) ==
    /\ SomeCallerIdle
    /\ reg_stamp < MaxRegs
    /\ reg_stamp' = reg_stamp + 1
    /\ readers' = ListAppend(readers, [cb |-> cb, reg |-> reg_stamp + 1])
    /\ p_cur' = Disturbed
    /\ UNCHANGED <<configVars, routeVars, instanceVars, codecVars, framerVars, threadVars, historyVars, lifeVars,
                   filters, p_recv, p_idx, fed>>

\* unregister_reader(callback), for a registered callback
UnregisterReader(cb) ==
    /\ SomeCallerIdle
    /\ FirstIndex(readers, cb) # 0
    /\ readers' = ListRemoveAt(readers, FirstIndex(readers, cb))
    /\ p_cur' = DisturbedBy(readers[FirstIndex(readers, cb)].reg)
    /\ UNCHANGED <<configVars, routeVars, instanceVars, codecVars, framerVars, threadVars, historyVars, lifeVars,
                   filters, p_recv, p_idx, reg_stamp, fed>>

\* A PROXY instance constructed with a port: CONNECTED, the thread started.
ProxyInit ==
    /\ mode = PROXY
    /\ raw = FALSE
    /\ buffer = <<>>
    /\ command_queue = <<>>
    /\ QueuesFresh
    /\ loop_pc = "start"
    /\ rx = <<>>
    /\ t_pc = [c \in Callers |-> "idle"]
    /\ t_op = [c \in Callers |-> 0]
    /\ port = "open"
    /\ LifeFresh
    /\ ProxyFresh
    /\ ConfigFresh
    /\ HistoryEmpty
    /\ CodecIdle
    /\ FramerIdle

\* The steps of the serial thread and of the peer.
ProxyLoopNext ==
    \/ LoopRun
    \/ ProxyCheck
    \/ ProxyRead
    \/ ProxyFilter
    \/ ProxyReader
    \/ ProxyNextMsg
    \/ ProxyFeed

ProxyNext ==
    \/ ProxyLoopNext
    \/ \E cb \in CallbackIds : RegisterFilter(cb)
    \/ \E cb \in CallbackIds : UnregisterFilter(cb)
    \/ \E cb \in CallbackIds : RegisterReader(cb)
    \/ \E cb \in CallbackIds : UnregisterReader(cb)

SpecProxy == ProxyInit /\ [][ProxyNext]_vars

\* The PROXY-mode instance with callers that call disconnect.
ProxyStopNext ==
    \/ ProxyLoopNext
    \/ \E c \in Callers : CallDisconnect(c)
    \/ \E c \in Callers : DisconnectActive(c)
    \/ \E c \in Callers : DisconnectPut(c)
    \/ \E c \in Callers : DisconnectJoin(c)

SpecProxyStop == ProxyInit /\ [][ProxyStopNext]_vars

(***************************************************************************)
(* Claims about PROXY-mode delivery                                        *)
(***************************************************************************)
\* The elements of a sequence.
Range(s) == { s[i] : i \in 1 .. Len(s) }

\* The registrations of list l that stayed registered during the delivery d.
Stayed(d, l) == { x \in Range(l) : x.reg \notin d.removed }

\* C14: for a successfully decoded message whose delivery is over: if a
\* filter that was registered throughout returns true for it, no reader got
\* it; the filter that consumed it is the last one invoked; and if no filter
\* consumed it, every reader that was registered throughout got it.
C14_FilterThenReaders ==
    (loop_pc = "delivered" /\ p_cur.msg.success) =>
        /\ (\E f \in Stayed(p_cur, p_cur.start_f) : Consumes(f.cb, p_cur.msg)) =>
               p_cur.readers_called = <<>>
        /\ p_cur.blocked_by # 0 =>
               /\ p_cur.readers_called = <<>>
               /\ p_cur.filters_called[Len(p_cur.filters_called)].reg = p_cur.blocked_by
        /\ p_cur.blocked_by = 0 =>
               Stayed(p_cur, p_cur.start_r) \subseteq Range(p_cur.readers_called)

\* Whether sequence s is the beginning of sequence t.
IsPrefix(s, t) == Len(s) <= Len(t) /\ s = SubSeq(t, 1, Len(s))

\* Whether the registrations of list l are in the order of their register
\* calls.
InRegistrationOrder(l) == \A i, j \in 1 .. Len(l) : i < j => l[i].reg < l[j].reg

\* C15: when no register or unregister call came during a delivery, the
\* filters were invoked in the order of their registration, up to the one
\* that consumed the message, and the readers were notified in the order of
\* theirs: all of them, unless a filter consumed the message.
C15_RegistrationOrder ==
    (loop_pc = "delivered" /\ ~p_cur.disturbed) =>
        /\ InRegistrationOrder(p_cur.start_f)
        /\ InRegistrationOrder(p_cur.start_r)
        /\ IsPrefix(p_cur.filters_called, p_cur.start_f)
        /\ p_cur.msg.success /\ p_cur.blocked_by = 0 => p_cur.filters_called = p_cur.start_f
        /\ p_cur.blocked_by = 0 => p_cur.readers_called = p_cur.start_r
        /\ p_cur.blocked_by # 0 => p_cur.readers_called = <<>>

\* C15 witness: a callback was registered as a reader, unregistered and
\* registered again after another one, and a message was then delivered to
\* the other one first.
C15_Witness ==
    /\ loop_pc = "delivered"
    /\ ~p_cur.disturbed
    /\ Len(p_cur.readers_called) = 2
    /\ p_cur.readers_called[1].reg = 2
    /\ p_cur.readers_called[2].reg = 3

(***************************************************************************)
(* Claims about the connection state, initialize and disconnect            *)
(***************************************************************************)
\* C16: once disconnect() has been called, connection_state is DISCONNECTED
\* and stays so.
C16_DisconnectedTerminal == disc_called => connection_state = DISCONNECTED

(***************************************************************************)
(* SpecConstruct: PelcoDevice(serial_comm, model, config), again and again *)
(*                                                                         *)
(* __init__ works on the module's one DEFAULT_CONFIG dict (line 82), so    *)
(* the dict is part of the state; the variables of the instance are those  *)
(* of the instance constructed last.                                       *)
(***************************************************************************)
\* The largest number of instances constructed.
MaxBuilt == 3

\* The config arguments tried: any mode, alone or with another timeout, and
\* another address or top speed alone.
Configs ==
    { [mode |-> m] : m \in Modes }
        \cup { [mode |-> m, timeout |-> 5] : m \in Modes }
        \cup { [sendAddress |-> 2], [maxSpeed |-> EXTENDED_MAX_SPEED] }

\* __init__, lines 82-124: what the instance holds when the constructor
\* returns, given the dict after the update, the port and the model.
Constructed(dc, has_port, is_raw) ==
    [mode |-> dc.mode, raw |-> is_raw, settings |-> SettingsOf(dc),
     port |-> IF has_port THEN "open" ELSE "none",
     connection_state |-> StateAtConstruction(dc.mode),
     loop_pc |-> IF has_port THEN "start" ELSE "none"]

\* An instance was constructed from the module's defaults.
ConstructInit ==
    /\ \E cfg \in Configs, has_port \in BOOLEAN, is_raw \in BOOLEAN :
          LET dc == DictUpdate(DEFAULT_CONFIG, cfg)
              it == Constructed(dc, has_port, is_raw)
          IN  /\ default_config = dc
              /\ mode = it.mode
              /\ raw = it.raw
              /\ settings = it.settings
              /\ port = it.port
              /\ connection_state = it.connection_state
              /\ loop_pc = it.loop_pc
    /\ built = 1
    /\ buffer = <<>>
    /\ command_queue = <<>>
    /\ active = FALSE
    /\ messages = <<>>
    /\ responses = <<>>
    /\ callback_queue = <<>>
    /\ rx = <<>>
    /\ t_pc = [c \in Callers |-> "idle"]
    /\ t_op = [c \in Callers |-> 0]
    /\ LifeFresh
    /\ ProxyFresh
    /\ HistoryEmpty
    /\ CodecIdle
    /\ FramerIdle

\* PelcoDevice(port, model, config) with a config (with_config) or without
Construct(with_config, cfg, has_port, is_raw) ==
    /\ built < MaxBuilt
    /\ built' = built + 1
    /\ LET dc == IF with_config THEN DictUpdate(default_config, cfg) ELSE default_config
           it == Constructed(dc, has_port, is_raw)
       IN  /\ default_config' = dc
           /\ mode' = it.mode
           /\ raw' = it.raw
           /\ settings' = it.settings
           /\ port' = it.port
           /\ connection_state' = it.connection_state
           /\ loop_pc' = it.loop_pc
    /\ buffer' = <<>>
    /\ command_queue' = <<>>
    /\ active' = FALSE
    /\ messages' = <<>>
    /\ responses' = <<>>
    /\ callback_queue' = <<>>
    /\ rx' = <<>>
    /\ filters' = <<>>
    /\ readers' = <<>>
    /\ UNCHANGED <<routeVars, codecVars, framerVars, t_pc, t_op, historyVars, i_pc, disc_called,
                   disc_returned, flushed, p_recv, p_idx, reg_stamp, fed, p_cur>>

ConstructNext ==
    \/ \E cfg \in Configs, has_port \in BOOLEAN, is_raw \in BOOLEAN :
          Construct(TRUE, cfg, has_port, is_raw)
    \/ \E has_port \in BOOLEAN, is_raw \in BOOLEAN :
          Construct(FALSE, DEFAULT_CONFIG, has_port, is_raw)

SpecConstruct == ConstructInit /\ [][ConstructNext]_vars

\* C17 as claimed: a PROXY, WRITE_ONLY or VIRTUAL instance is CONNECTED after
\* construction exactly when it was given a port, and DISCONNECTED otherwise;
\* a NORMAL instance is DISCONNECTED.
C17_ConnectedIffPort ==
    /\ mode \in {PROXY, WRITE_ONLY, VIRTUAL} =>
          /\ connection_state = CONNECTED <=> port # "none"
          /\ port = "none" => connection_state = DISCONNECTED
    /\ mode = NORMAL => connection_state = DISCONNECTED

\* C17 as amended: a PROXY, WRITE_ONLY or VIRTUAL instance is CONNECTED after
\* construction, with or without a port; a NORMAL instance is DISCONNECTED.
C17_ConnectedByMode ==
    /\ mode \in {PROXY, WRITE_ONLY, VIRTUAL} => connection_state = CONNECTED
    /\ mode = NORMAL => connection_state = DISCONNECTED

\* C17 witness: a VIRTUAL instance constructed without a port, after other
\* instances, is CONNECTED.
C17_Witness ==
    /\ built > 1
    /\ mode = VIRTUAL
    /\ port = "none"
    /\ connection_state = CONNECTED

\* The error a query gets from an INITIALIZING instance.
NotReadyError == error(ERR_NOT_READY, <<>>)

\* C18: a query refused with the not-ready error has no other effect: its
\* message was not put on the outgoing queue, its callback was not
\* registered, and the not-ready error is all its caller or callback got.
C18_RefusedQueryHasNoEffect ==
    \A o \in Ops :
        (kind[o] \in {"query", "query_cb"} /\ NotReadyError \in Range(delivered[o])) =>
            /\ put_no[o] = 0
            /\ reg_no[o] = 0
            /\ delivered[o] = <<NotReadyError>>

\* C19: once disconnect() has returned, the serial thread has ended (so it
\* reads and writes the port no more) and the port is closed.
C19_JoinedAndClosed == disc_returned => (loop_pc = "exited" /\ port = "closed")

\* C19 witness: disconnect() has returned on an instance whose loop had
\* written a request and was awaiting its reply when the loop was stopped.
C19_Witness ==
    /\ disc_returned
    /\ in_flight # 0
    /\ loop_pc = "exited"

\* The next step of the serial thread of a PROXY instance; the peer is not
\* obliged to send.
ProxyLoopStep ==
    \/ LoopRun \/ ProxyCheck \/ ProxyRead \/ ProxyFilter \/ ProxyReader \/ ProxyNextMsg

ProxyFairness ==
    /\ WF_vars(ProxyLoopStep)
    /\ \A c \in Callers : WF_vars(CallerStep(c))

FairSpecProxyStop == SpecProxyStop /\ ProxyFairness

\* C20: a caller that has entered disconnect() eventually returns from it.
C20_DisconnectReturns ==
    \A c \in Callers : (t_pc[c] = "disc_join") ~> (t_pc[c] = "idle")

\* PelcoDevice(port, model) with no config argument.
ConstructPlain == \E has_port \in BOOLEAN, is_raw \in BOOLEAN :
                      Construct(FALSE, DEFAULT_CONFIG, has_port, is_raw)

\* C21: an instance constructed without a config gets the library defaults
\* (PROXY mode, address 1, timeout 1.0, MAX_SPEED), whatever instances were
\* constructed before it.
C21_PlainInstanceGetsDefaults ==
    [][ConstructPlain =>
           /\ mode' = DEFAULT_CONFIG.mode
           /\ settings' = SettingsOf(DEFAULT_CONFIG)]_vars

(***************************************************************************)
(* SpecRoute: commands and queries on an instance of any mode, constructed *)
(* with or without a port                                                  *)
(***************************************************************************)
\* __init__, lines 94-124: an instance of any mode; the serial thread is
\* started when a port was given.
RouteInit ==
    /\ mode \in Modes
    /\ raw = FALSE
    /\ buffer = <<>>
    /\ command_queue = <<>>
    /\ QueuesFresh
    /\ port \in {"open", "none"}
    /\ loop_pc = IF port = "none" THEN "none" ELSE "start"
    /\ rx = <<>>
    /\ t_pc = [c \in Callers |-> "idle"]
    /\ t_op = [c \in Callers |-> 0]
    /\ LifeFresh
    /\ ProxyFresh
    /\ ConfigFresh
    /\ HistoryEmpty
    /\ CodecIdle
    /\ FramerIdle

\* The peer of a NORMAL instance speaks only when asked (DeviceReplies); the
\* peer of any other instance sends packets of its own accord.
RouteFeed == mode # NORMAL /\ ProxyFeed

\* The serial thread of either loop, the peer, and the callers.
RouteNext ==
    \/ Next
    \/ ProxyCheck
    \/ ProxyRead
    \/ ProxyFilter
    \/ ProxyReader
    \/ ProxyNextMsg
    \/ RouteFeed

SpecRoute == RouteInit /\ [][RouteNext]_vars

\* C22: with a port, a command on a PROXY or WRITE_ONLY instance has written
\* its bytes on the caller's thread when the call returns and has put nothing
\* on the outgoing queue; on a NORMAL instance no caller writes to the port, a
\* command is put on the outgoing queue, and only the loop reads the port; the
\* port of a WRITE_ONLY instance is never read.
C22_WriteRouting ==
    /\ (mode \in {PROXY, WRITE_ONLY} /\ port # "none") =>
          \A o \in Ops : kind[o] = "send" =>
              /\ channel_use.writer[o] = "caller"
              /\ put_no[o] = 0
    /\ mode = NORMAL =>
          /\ \A o \in Ops :
                /\ channel_use.writer[o] # "caller"
                /\ (kind[o] = "send" /\ port # "none") => put_no[o] # 0
          /\ channel_use.read_by \subseteq {"loop"}
    /\ mode = WRITE_ONLY => channel_use.read_by = {}

\* C22 witness: a WRITE_ONLY instance whose port holds bytes of the peer has
\* written a command.
C22_Witness ==
    /\ mode = WRITE_ONLY
    /\ rx # <<>>
    /\ \E o \in Ops : kind[o] = "send" /\ channel_use.writer[o] = "caller"

\* C22, the NORMAL case happens: the loop has written a command and read.
C22_NormalCase ==
    /\ mode = NORMAL
    /\ channel_use.read_by = {"loop"}
    /\ \E o \in Ops : kind[o] = "send" /\ channel_use.writer[o] = "loop"

\* C23: a VIRTUAL instance never writes to a port.
C23_VirtualNeverWrites == mode = VIRTUAL => tx = <<>>

(***************************************************************************)
(* SpecFramerQueue: ingest calls on an instance whose _command_queue       *)
(* grows and shrinks between the calls                                     *)
(***************************************************************************)
\* _read_write_loop, line 234: self._command_queue.insert(0, data)
FramerRequest ==
    /\ mode = NORMAL
    /\ command_queue = <<>>
    /\ command_queue' = ListInsertFront(command_queue, QueryData)
    /\ UNCHANGED <<mode, raw, buffer, queueVars, codecVars, framerVars, threadVars,
                   historyVars, lifeVars, proxyVars, configVars, routeVars>>

\* _respond, lines 257-258: self._command_queue.pop()
FramerResolve ==
    /\ mode = NORMAL
    /\ command_queue # <<>>
    /\ command_queue' = ListPop(command_queue).rest
    /\ UNCHANGED <<mode, raw, buffer, queueVars, codecVars, framerVars, threadVars,
                   historyVars, lifeVars, proxyVars, configVars, routeVars>>

FramerQueueNext == FramerNext \/ FramerRequest \/ FramerResolve

SpecFramerQueue == FramerInit /\ [][FramerQueueNext]_vars

\* C24: an ingest call on a NORMAL instance with no outstanding request
\* returns an empty list and leaves the buffer empty.
C24_DiscardsWhenIdle ==
    [][(Discards /\ f_calls' = f_calls + 1) =>
           (f_returned' = <<>> /\ buffer' = <<>>)]_vars

\* C24 witness: the buffer held bytes, no request is outstanding, and a call
\* given a whole packet returned nothing and emptied the buffer.
C24_Witness ==
    /\ Discards
    /\ f_calls > 0
    /\ f_old # <<>>
    /\ FindPacket(f_data).match # <<>>
    /\ f_returned = <<>>
    /\ buffer = <<>>

(***************************************************************************)
(* SpecDecode: _command, then _parse on its result, on an instance with    *)
(* either top speed                                                        *)
(***************************************************************************)
\* The data bytes tried: both ends of the byte range and both sides of the
\* default top speed.
DecodeData == {0, 1, MAX_SPEED, MAX_SPEED + 1, 255}

\* The first command bytes tried: every combination of the three bits
\* _parse looks at, both sides of its bound, and the largest byte.
DecodeCmd1 == (0 .. 8) \cup {255}

\* The packets decoded: any second command byte with the bytes above.
DecodeFields == {send_address} \X DecodeCmd1 \X (0 .. 255) \X DecodeData \X DecodeData

\* An instance whose config gave one or the other top speed.
DecodeInit ==
    /\ mode = PROXY /\ raw = FALSE /\ buffer = <<>> /\ command_queue = <<>>
    /\ QueuesFresh
    /\ loop_pc = "none"
    /\ rx = <<>>
    /\ t_pc = [c \in Callers |-> "idle"]
    /\ t_op = [c \in Callers |-> 0]
    /\ port = "none"
    /\ LifeFresh
    /\ ProxyFresh
    /\ HistoryEmpty
    /\ \E top \in {MAX_SPEED, EXTENDED_MAX_SPEED} :
          default_config = DictUpdate(DEFAULT_CONFIG, [maxSpeed |-> top])
    /\ settings = SettingsOf(default_config)
    /\ built = 1
    /\ c_pc = "args"
    /\ c_fields \in DecodeFields
    /\ c_packet = <<>>
    /\ c_found = [match |-> <<>>, position |-> <<>>]
    /\ c_parsed = NoneData
    /\ c_call = NoCall
    /\ FramerIdle

\* self._parse(packet) on the packet built
CodecParse ==
    /\ c_pc = "built"
    /\ c_parsed' = Parse(c_packet, raw, settings.max_speed)
    /\ c_pc' = "parsed"
    /\ UNCHANGED <<configVars, routeVars, proxyVars, lifeVars, instanceVars, c_fields,
                   c_packet, c_found, c_call, framerVars, threadVars, historyVars>>

DecodeNext == CodecCommand \/ CodecParse

SpecDecode == DecodeInit /\ [][DecodeNext]_vars

(***************************************************************************)
(* Claims about decoding                                                   *)
(***************************************************************************)
\* The fields of the packet decoded.
ParsedC1 == c_fields[2]

ParsedC2 == c_fields[3]

ParsedD1 == c_fields[4]

ParsedD2 == c_fields[5]

\* The branch conditions of _parse, in its order.
IsStopPacket == ParsedC1 + ParsedC2 + ParsedD1 + ParsedD2 = 0

IsStandardPacket == ~IsStopPacket /\ ParsedC1 <= 4 /\ ParsedC2 % 2 = 0

\* A pan (left or right) or tilt (up or down) direction bit of cmd2 is set.
PanBit == Bit(ParsedC2, 4) \/ Bit(ParsedC2, 2)

TiltBit == Bit(ParsedC2, 16) \/ Bit(ParsedC2, 8)

\* r is the error with this code that carries value v.
IsErrorWith(r, code, v) == ~r.success /\ r.error = [code |-> code, data |-> <<v>>]

\* r is a successful message of this type.
IsMessage(r, type) ==
    /\ r.success
    /\ "type" \in DOMAIN r.data
    /\ r.data.type = type

\* Every Standard message decoded has both speeds in [0, 1].
SpeedsInRange ==
    IsMessage(c_parsed, TYPE_STANDARD) =>
        /\ c_parsed.data.panSpeed \in 0 .. 10000
        /\ c_parsed.data.tiltSpeed \in 0 .. 10000

\* C25 as claimed: Standard messages have speeds in [0, 1]; a standard packet
\* with a pan bit and data1 > 64 decodes to the bad-pan error and one with a
\* tilt bit and data2 > 64 to the bad-tilt error, each with the speed value.
C25_SpeedErrorsPerAxis ==
    (c_pc = "parsed" /\ IsStandardPacket) =>
        /\ SpeedsInRange
        /\ (PanBit /\ ParsedD1 > 64) =>
              IsErrorWith(c_parsed, ERR_BAD_PAN, Speed(ParsedD1, settings.max_speed))
        /\ (TiltBit /\ ParsedD2 > 64) =>
              IsErrorWith(c_parsed, ERR_BAD_TILT, Speed(ParsedD2, settings.max_speed))

\* The tilt speed of the packet decoded is over the instance's top speed.
TiltOver == TiltBit /\ ParsedD2 > settings.max_speed

PanOver == PanBit /\ ParsedD1 > settings.max_speed

\* C25 as amended: Standard messages have speeds in [0, 1]; a standard packet
\* with a tilt bit and data2 over the instance's top speed decodes to the
\* bad-tilt error, and one with a pan bit and data1 over the top speed, and no
\* such tilt, decodes to the bad-pan error, each with the speed value.
C25_SpeedErrorsTiltFirst ==
    (c_pc = "parsed" /\ IsStandardPacket) =>
        /\ SpeedsInRange
        /\ TiltOver =>
              IsErrorWith(c_parsed, ERR_BAD_TILT, Speed(ParsedD2, settings.max_speed))
        /\ (PanOver /\ ~TiltOver) =>
              IsErrorWith(c_parsed, ERR_BAD_PAN, Speed(ParsedD1, settings.max_speed))

\* C25 witness: both speeds of a decoded packet are over the default top
\* speed, and the result is the bad-tilt error.
C25_Witness ==
    /\ c_pc = "parsed"
    /\ IsStandardPacket
    /\ settings.max_speed = MAX_SPEED
    /\ PanOver /\ TiltOver
    /\ IsErrorWith(c_parsed, ERR_BAD_TILT, Speed(ParsedD2, MAX_SPEED))

\* r is an error with this code.
IsError(r, code) == ~r.success /\ r.error.code = code

\* The kind of a decoded result, read from the result alone.
KindOf(r) ==
    IF IsMessage(r, TYPE_STOP) THEN "stop"
    ELSE IF \/ IsMessage(r, TYPE_STANDARD)
            \/ IsError(r, ERR_BAD_PAN)
            \/ IsError(r, ERR_BAD_TILT) THEN "standard"
    ELSE IF \/ IsMessage(r, TYPE_EXTENDED)
            \/ (r.success /\ DOMAIN r.data = {"value"})
            \/ IsError(r, ERR_BAD_VALUE) THEN "extended"
    ELSE IF IsMessage(r, TYPE_ALTERNATE) THEN "alternate"
    ELSE "none"

\* C26: a packet of four zero bytes decodes to Stop; else one with c1 <= 4
\* and c2 even to a standard result; else one with c2 odd to an extended
\* result; else to Alternate with addr, c1, c2, d1 and d2 as they came.
C26_Classification ==
    c_pc = "parsed" =>
        IF IsStopPacket THEN KindOf(c_parsed) = "stop"
        ELSE IF ParsedC1 <= 4 /\ ParsedC2 % 2 = 0 THEN KindOf(c_parsed) = "standard"
        ELSE IF ParsedC2 % 2 = 1 THEN KindOf(c_parsed) = "extended"
        ELSE c_parsed = success([addr |-> c_fields[1], type |-> TYPE_ALTERNATE,
                                 c1 |-> ParsedC1, c2 |-> ParsedC2,
                                 d1 |-> ParsedD1, d2 |-> ParsedD2])

\* C26 witness: a packet on the bound, c1 = 4 with c2 even, was decoded to a
\* Standard message.
C26_Witness ==
    /\ c_pc = "parsed"
    /\ ParsedC1 = 4
    /\ ParsedC2 = 2
    /\ IsMessage(c_parsed, TYPE_STANDARD)

\* The 16-bit value of the data bytes of the packet decoded.
ParsedWord == Word(ParsedD1, ParsedD2)

\* The tilt a successful result carries, in 1/100 degree.
TiltOf(r) == IF IsMessage(r, TYPE_EXTENDED) THEN r.data.data ELSE r.data.value

\* C28: a SET_TILT or QUERY_TILT_RESPONSE packet whose value is outside both
\* [0, 9000] and [27000, 36000] decodes to the bad-value error, and a tilt
\* that is decoded with success is in [-90, 90].
C28_TiltOutOfRangeIsError ==
    (c_pc = "parsed" /\ ParsedC2 \in {EXT_CMD_SET_TILT, EXT_CMD_QUERY_TILT_RESPONSE}) =>
        /\ (ParsedWord \notin 0 .. 9000 /\ ParsedWord \notin 27000 .. 36000) =>
              IsError(c_parsed, ERR_BAD_VALUE)
        /\ c_parsed.success => TiltOf(c_parsed) \in -9000 .. 9000

(***************************************************************************)
(* SpecEncode: one encoder call (set_tilt, tilt_query_response, set_zoom,  *)
(* zoom_query_response, magnification_query_response or                    *)
(* relative_speed_control), _command on its fields, _parse on the packet.  *)
(* Angles and percentages are arguments in 1/100; speeds are integers.     *)
(***************************************************************************)
TiltEncoders == {"set_tilt", "tilt_query_response"}

PercentEncoders == {"set_zoom", "zoom_query_response", "magnification_query_response"}

\* The arguments tried: every hundredth of the valid range and the first
\* value beyond each end.
TiltInputs == -9001 .. 9001

PercentInputs == -1 .. 10001

SpeedInputs == -101 .. 101

\* The calls tried: each encoder with each of its arguments.
IsEncodeCall(call) ==
    \/ \E f \in TiltEncoders, h \in TiltInputs : call = [fn |-> f, args |-> <<h>>]
    \/ \E f \in PercentEncoders, h \in PercentInputs : call = [fn |-> f, args |-> <<h>>]
    \/ \E p \in SpeedInputs, t \in SpeedInputs :
          call = [fn |-> "relative_speed_control", args |-> <<p, t>>]

PresetEncoders == {"set_preset", "call_preset", "clear_preset"}

AuxEncoders == {"set_auxiliary", "clear_auxiliary"}

\* A plausible slip: preset ids are accepted from 0, as aux ids are.
ValidCallFromZero(call) ==
    IF call.fn \in TiltEncoders THEN call.args[1] \in -9000 .. 9000
    ELSE IF call.fn \in PercentEncoders THEN call.args[1] \in 0 .. 10000
    ELSE IF call.fn \in PresetEncoders \cup AuxEncoders THEN call.args[1] \in 0 .. 255
    ELSE call.args[1] \in -100 .. 100 /\ call.args[2] \in -100 .. 100

\* The range tests of the encoders; a call that fails its test raises
\* ValueError (an aux call returns the invalid-parameter error instead).
ValidCall(call) ==
    IF call.fn \in TiltEncoders THEN call.args[1] \in -9000 .. 9000
    ELSE IF call.fn \in PercentEncoders THEN call.args[1] \in 0 .. 10000
    ELSE IF call.fn \in PresetEncoders THEN call.args[1] \in 1 .. 255
    ELSE IF call.fn \in AuxEncoders THEN call.args[1] \in 0 .. 255
    ELSE call.args[1] \in -100 .. 100 /\ call.args[2] \in -100 .. 100

\* A plausible slip: a positive tilt encoded without the wrap to 360 - t.
TiltExactNoWrap(h) == IF h > 0 THEN h ELSE -h

\* set_tilt, lines 582-585, and tilt_query_response, lines 526-529: the wire
\* value of tilt h/100 in real arithmetic, (360 - t) * 100 or -t * 100.
TiltExact(h) == IF h > 0 THEN 36000 - h ELSE -h

\* int(tilt_value), lines 587 and 531, truncates a double.  When t is a
\* multiple of 0.25 the argument, the difference and the product are exact
\* doubles.  For any other t the double nearest to t is not t, the product
\* can fall just below the integer, and int() then gives one less; both
\* outcomes are kept.
TiltWire(h) == IF h % 25 = 0 THEN {TiltExact(h)} ELSE {TiltExact(h) - 1, TiltExact(h)}

\* int(zoom_pct / 100 * 0xFFFF), lines 504, 512 and 596: the scaled value
\* truncated.
PercentWire(h) == (h * 65535) \div 10000

PercentOpcode(fn) ==
    IF fn = "set_zoom" THEN EXT_CMD_SET_ZOOM
    ELSE IF fn = "zoom_query_response" THEN EXT_CMD_QUERY_ZOOM_RESPONSE
    ELSE EXT_CMD_QUERY_MAGNIFICATION_RESPONSE

Abs(x) == IF x < 0 THEN -x ELSE x

\* int(abs(pct) / 100 * 64), lines 543 and 546: the scaled speed truncated
SpeedByte(pct) == (Abs(pct) * 64) \div 100

\* relative_speed_control, lines 538-548: the fields of its packet
SpeedFields(addr, pan_pct, tilt_pct) ==
    IF pan_pct = 0 /\ tilt_pct = 0 THEN <<addr, 0, 0, 0, 0>>
    ELSE LET pan_bit == IF pan_pct = 0 THEN 0
                        ELSE IF pan_pct > 0 THEN CMD2_PAN_RIGHT ELSE CMD2_PAN_LEFT
             tilt_bit == IF tilt_pct = 0 THEN 0
                         ELSE IF tilt_pct > 0 THEN CMD2_TILT_UP ELSE CMD2_TILT_DOWN
         IN  <<addr, 0, pan_bit + tilt_bit,
               IF pan_pct = 0 THEN 0 ELSE SpeedByte(pan_pct),
               IF tilt_pct = 0 THEN 0 ELSE SpeedByte(tilt_pct)>>

\* position >> 8 and position & 0xff
WireFields(addr, opcode, wire) == <<addr, 0, opcode, wire \div 256, wire % 256>>

\* The opcode of a preset or aux call.
IdOpcode(fn) ==
    IF fn = "set_preset" THEN EXT_CMD_SET_PRESET
    ELSE IF fn = "call_preset" THEN EXT_CMD_CALL_PRESET
    ELSE IF fn = "clear_preset" THEN EXT_CMD_CLEAR_PRESET
    ELSE IF fn = "set_auxiliary" THEN EXT_CMD_SET_AUX
    ELSE EXT_CMD_CLEAR_AUX

\* The fields a valid call hands to _command.
EncodedFields(call, addr) ==
    IF call.fn \in PresetEncoders \cup AuxEncoders
    THEN { <<addr, 0, IdOpcode(call.fn), 0, call.args[1]>> }
    ELSE
    IF call.fn = "set_tilt"
    THEN { WireFields(addr, EXT_CMD_SET_TILT, w) : w \in TiltWire(call.args[1]) }
    ELSE IF call.fn = "tilt_query_response"
    THEN { WireFields(addr, EXT_CMD_QUERY_TILT_RESPONSE, w) : w \in TiltWire(call.args[1]) }
    ELSE IF call.fn \in PercentEncoders
    THEN { WireFields(addr, PercentOpcode(call.fn), PercentWire(call.args[1])) }
    ELSE { SpeedFields(addr, call.args[1], call.args[2]) }

EncodeInit ==
    /\ mode = PROXY /\ raw = FALSE /\ buffer = <<>> /\ command_queue = <<>>
    /\ QueuesFresh
    /\ ThreadsIdle
    /\ c_pc = "call"
    /\ IsEncodeCall(c_call)
    /\ c_fields = <<>>
    /\ c_packet = <<>>
    /\ c_found = [match |-> <<>>, position |-> <<>>]
    /\ c_parsed = NoneData
    /\ FramerIdle

\* The call up to its _command: ValueError, or the fields of the packet.
EncodeCall ==
    /\ c_pc = "call"
    /\ IF ValidCall(c_call)
       THEN /\ c_fields' \in EncodedFields(c_call, settings.send_address)
            /\ c_pc' = "args"
       ELSE /\ c_pc' = IF c_call.fn \in AuxEncoders THEN "rejected" ELSE "raised"
            /\ UNCHANGED c_fields
    /\ UNCHANGED <<configVars, routeVars, proxyVars, lifeVars, instanceVars, c_packet,
                   c_found, c_parsed, c_call, framerVars, threadVars, historyVars>>

EncodeNext == EncodeCall \/ CodecCommand \/ CodecParse

SpecEncode == EncodeInit /\ [][EncodeNext]_vars

PercentOf(r) == IF IsMessage(r, TYPE_EXTENDED) THEN r.data.data ELSE r.data.value

\* C29: the packet of a percentage encoder called with p in [0, 100] decodes,
\* under its opcode, to a percentage within 100/65535 of p.
C29_PercentRoundTrip ==
    (c_pc = "parsed" /\ c_call.fn \in PercentEncoders) =>
        /\ c_parsed.success
        /\ Abs(PercentOf(c_parsed) - c_call.args[1]) * 65535 <= 10000

\* round(|pct| / 100 * 64), the data byte C30 states
SpeedByteRounded(pct) == RoundHalfEven(Abs(pct) * 64, 100)

\* The direction bits C30 states for a pan and a tilt percentage.
DirectionBits(pan_pct, tilt_pct) ==
      (IF pan_pct > 0 THEN CMD2_PAN_RIGHT ELSE IF pan_pct < 0 THEN CMD2_PAN_LEFT ELSE 0)
    + (IF tilt_pct > 0 THEN CMD2_TILT_UP ELSE IF tilt_pct < 0 THEN CMD2_TILT_DOWN ELSE 0)

\* C30: relative_speed_control with both percentages in [-100, 100] emits one
\* packet, with cmd1 = 0, cmd2 the direction bits of the nonzero axes and
\* data1, data2 the rounded scaled magnitudes (the STOP packet for 0, 0);
\* outside the range it emits nothing.
C30_RelativeSpeedPacket ==
    (c_call.fn = "relative_speed_control" /\ c_pc # "call") =>
        LET pan_pct == c_call.args[1]
            tilt_pct == c_call.args[2]
        IN  IF pan_pct \in -100 .. 100 /\ tilt_pct \in -100 .. 100
            THEN c_fields = <<send_address, 0, DirectionBits(pan_pct, tilt_pct),
                              SpeedByteRounded(pan_pct), SpeedByteRounded(tilt_pct)>>
            ELSE c_pc = "raised" /\ c_fields = <<>>

(***************************************************************************)
(* SpecPreset: a preset or aux call, from its range test to _write_data    *)
(***************************************************************************)
PresetInputs == -1 .. 256

IsPresetCall(call) ==
    \E f \in PresetEncoders \cup AuxEncoders, i \in PresetInputs :
        call = [fn |-> f, args |-> <<i>>]

PresetInit ==
    /\ mode \in Modes
    /\ raw = FALSE /\ buffer = <<>> /\ command_queue = <<>>
    /\ QueuesFresh
    /\ loop_pc = "none"
    /\ rx = <<>>
    /\ t_pc = [c \in Callers |-> "idle"]
    /\ t_op = [c \in Callers |-> 0]
    /\ port \in {"open", "none"}
    /\ LifeFresh
    /\ ProxyFresh
    /\ ConfigFresh
    /\ HistoryEmpty
    /\ c_pc = "call"
    /\ IsPresetCall(c_call)
    /\ c_fields = <<>>
    /\ c_packet = <<>>
    /\ c_found = [match |-> <<>>, position |-> <<>>]
    /\ c_parsed = NoneData
    /\ FramerIdle

\* _write_data on the packet _command built: written to the port in every
\* mode but NORMAL, queued as (False, data) in NORMAL, printed without a port.
EncodeWrite ==
    /\ c_pc = "built"
    /\ c_pc' = "written"
    /\ op_count < MaxOps
    /\ op_count' = op_count + 1
    /\ kind' = [kind EXCEPT ![op_count + 1] = "send"]
    /\ IF port = "none"
       THEN UNCHANGED <<tx, messages, put_no, put_count, channel_use>>
       ELSE IF WritesDirectly(mode)
       THEN /\ tx' = Append(tx, op_count + 1)
            /\ channel_use' = WrittenBy("caller", op_count + 1)
            /\ UNCHANGED <<messages, put_no, put_count>>
       ELSE /\ messages' = QueuePut(messages, [op |-> op_count + 1, expects_reply |-> FALSE,
                                               data |-> c_packet])
            /\ put_no' = [put_no EXCEPT ![op_count + 1] = put_count + 1]
            /\ put_count' = put_count + 1
            /\ UNCHANGED <<tx, channel_use>>
    /\ UNCHANGED <<configVars, proxyVars, lifeVars, mode, raw, buffer, command_queue,
                   active, connection_state, responses, callback_queue, c_fields,
                   c_packet, c_found, c_parsed, c_call, framerVars, threadVars,
                   reg_no, reg_count, in_flight, resolved, delivered, last_respond>>

PresetNext == EncodeCall \/ CodecCommand \/ EncodeWrite

SpecPreset == PresetInit /\ [][PresetNext]_vars

\* The id of the call, and whether it lies in the range of its operation.
PresetId == c_call.args[1]

PresetIdInRange ==
    IF c_call.fn \in PresetEncoders THEN PresetId >= 1 /\ PresetId <= 255
    ELSE PresetId >= 0 /\ PresetId <= 255

\* C31: a preset call with an id outside 1..255, or an aux call with an id
\* outside 0..255, is rejected with no effect: nothing written, nothing
\* queued, the engine as it was; an id inside the range goes out unchanged
\* as data2 of the packet written or queued.
C31_IdRangeChecked ==
    /\ ~PresetIdInRange =>
          /\ c_pc \in {"call", "raised", "rejected"}
          /\ c_packet = <<>>
          /\ QueuesFresh
          /\ HistoryEmpty
    /\ (PresetIdInRange /\ c_pc = "written") =>
          /\ c_packet[6] = PresetId
          /\ c_packet[5] = 0
          /\ c_packet[4] = IdOpcode(c_call.fn)
          /\ port = "open" =>
                IF mode = NORMAL
                THEN Len(messages) = 1 /\ messages[1].data = c_packet /\ tx = <<>>
                ELSE tx = <<1>> /\ messages = <<>>

\* A preset id of 0 was refused on an instance with a port.
C31_Witness ==
    /\ c_call = [fn |-> "clear_preset", args |-> <<0>>]
    /\ c_pc = "raised"
    /\ port = "open"
    /\ tx = <<>> /\ messages = <<>>

\* The largest preset id went out on the port.
C31_AcceptedCase ==
    /\ c_call = [fn |-> "set_preset", args |-> <<255>>]
    /\ c_pc = "written"
    /\ mode = WRITE_ONLY
    /\ tx = <<1>>

(***************************************************************************)
(* SpecAwait: the NORMAL-mode loop with a peer that may answer twice, and  *)
(* callers that may disconnect                                             *)
(***************************************************************************)
\* The peer answers the request in flight a second time, before the loop has
\* read the first answer.
AwaitFeed ==
    /\ loop_pc = "await"
    /\ in_flight # 0
    /\ rx = Reply(in_flight)
    /\ rx' = rx \o Reply(in_flight)
    /\ UNCHANGED <<configVars, routeVars, instanceVars, codecVars, framerVars, loop_pc,
                   t_pc, t_op, historyVars, lifeVars, proxyVars>>

AwaitNext ==
    \/ Next
    \/ LoopAwaitStop
    \/ AwaitFeed
    \/ \E c \in Callers : CallDisconnect(c)
    \/ \E c \in Callers : DisconnectActive(c)
    \/ \E c \in Callers : DisconnectPut(c)
    \/ \E c \in Callers : DisconnectJoin(c)

SpecAwait == Init /\ [][AwaitNext]_vars

\* A step that calls _respond.
Responds == last_respond' # last_respond

\* C32: every _respond of the loop is made for the request in flight, which
\* was not resolved before, hands one result to one callback or puts it on
\* the response queue, and puts the loop back at its outgoing queue: no
\* written request is resolved twice.  While the loop is active an await ends
\* only with that one resolution, so each written reply-expecting request is
\* resolved exactly once; no read of one byte yields two responses.
C32_OneResolutionPerRequest ==
    [][/\ Responds =>
            /\ in_flight # 0
            /\ in_flight \notin resolved
            /\ last_respond'.op = in_flight
            /\ resolved' = resolved \cup {in_flight}
            /\ in_flight' = 0
            /\ loop_pc' = "top"
            /\ IF last_respond'.route = "callback"
               THEN /\ delivered' = [delivered EXCEPT ![last_respond'.callback] =
                                        Append(@, last_respond'.response)]
                    /\ responses' = responses
               ELSE /\ responses' = Append(responses, last_respond'.response)
                    /\ delivered' = delivered
       /\ (loop_pc = "await" /\ loop_pc' # "await" /\ active) => Responds
       /\ (in_flight' # 0 /\ active') => loop_pc' = "await"
       /\ (in_flight' # 0 /\ in_flight' # in_flight) =>
             (in_flight = 0 /\ in_flight' \notin resolved /\ tx' = Append(tx, in_flight'))
      ]_vars

\* C32 witness: the peer answered twice, the first answer resolved the
\* request, and the loop is back at its queue with the second answer unread.
C32_Witness ==
    /\ active
    /\ in_flight = 0
    /\ last_respond.op # 0
    /\ last_respond.response.success
    /\ loop_pc \in {"top", "get"}
    /\ Len(rx) >= COMMAND_SIZE
    /\ resolved = {last_respond.op}

(***************************************************************************)
(* Claims about the buffer ingest leaves and the messages it emits         *)
(***************************************************************************)
\* C33: after every ingest call the buffer is empty or begins with 0xFF, and
\* no seven bytes of it begin with 0xFF and end with the sum of the five
\* bytes between them, modulo 256.
C33_BufferHoldsNoPacket ==
    f_calls > 0 =>
        /\ buffer = <<>> \/ buffer[1] = 255
        /\ \A i \in 1 .. (Len(buffer) - 6) :
              ~(/\ buffer[i] = 255
                /\ buffer[i + 6] = (buffer[i + 1] + buffer[i + 2] + buffer[i + 3]
                                    + buffer[i + 4] + buffer[i + 5]) % 256)

\* C33 witness: a call scanned bytes that began with garbage and held a sync
\* byte; the buffer it left is longer than a packet and begins with 0xFF.
C33_Witness ==
    /\ f_calls > 0
    /\ f_scanned # <<>>
    /\ f_scanned[1] # 255
    /\ Len(buffer) > COMMAND_SIZE
    /\ buffer[1] = 255

\* Seven bytes of s from index i on that pass the sync and checksum tests.
PassesAt(s, i) ==
    /\ i >= 1 /\ i + 6 <= Len(s)
    /\ s[i] = 255
    /\ s[i + 6] = (s[i + 1] + s[i + 2] + s[i + 3] + s[i + 4] + s[i + 5]) % 256

\* The windows of s from index k on, leftmost first and without overlap.
RECURSIVE WindowsFrom(_, _)
WindowsFrom(s, k) ==
    IF \E i \in k .. Len(s) : PassesAt(s, i)
    THEN LET i == CHOOSE j \in k .. Len(s) :
                     PassesAt(s, j) /\ \A m \in k .. (j - 1) : ~PassesAt(s, m)
         IN  <<i>> \o WindowsFrom(s, i + 7)
    ELSE <<>>

\* C34: the messages a call emits are, in order, the decodes of the windows
\* of the scanned bytes taken leftmost first without overlap; each window is
\* seven contiguous bytes that begin with 0xFF and end with the sum of the
\* five bytes between, modulo 256, and nothing else is emitted, as a message
\* or as an error.
C34_EmitsValidWindowsInOrder ==
    (f_calls > 0 /\ ~Discards) =>
        LET w == WindowsFrom(f_scanned, 1)
        IN  /\ Len(f_returned) = Len(w)
            /\ \A k \in 1 .. Len(w) :
                  /\ PassesAt(f_scanned, w[k])
                  /\ f_returned[k] = Parse(SubSeq(f_scanned, w[k], w[k] + 6), raw, MAX_SPEED)
                  /\ k > 1 => w[k] >= w[k - 1] + 7

\* C34 witness: one call emitted two messages from bytes that began with
\* garbage, and the garbage held a sync byte that opened no window.
C34_Witness ==
    /\ f_calls > 0
    /\ ~Discards
    /\ Len(f_returned) = 2
    /\ f_scanned[1] # 255
    /\ \E i \in 1 .. Len(f_scanned) : f_scanned[i] = 255 /\ ~PassesAt(f_scanned, i)

\* The letter of one command bit.
Letter(x, m, l) == IF Bit(x, m) THEN l ELSE ""

ZoomOpcodes ==
    {EXT_CMD_SET_ZOOM, EXT_CMD_QUERY_ZOOM_RESPONSE, EXT_CMD_QUERY_MAGNIFICATION_RESPONSE}

\* C36: the same data bytes decode to the same percentage under SET_ZOOM,
\* QUERY_ZOOM_RESPONSE and QUERY_MAGNIFICATION_RESPONSE: the 16-bit word
\* times 100 over 65535.
C36_ZoomDecodesAlike ==
    (c_pc = "parsed" /\ ParsedC2 \in ZoomOpcodes) =>
        /\ c_parsed.success
        /\ PercentOf(c_parsed) = RoundHalfEven(ParsedWord * 10000, 65535)
        /\ \A op \in ZoomOpcodes :
              PercentOf(Parse(Command(c_fields[1], ParsedC1, op, ParsedD1, ParsedD2),
                              raw, settings.max_speed)) = PercentOf(c_parsed)

\* How many times x occurs in sequence s.
Occurrences(s, x) == Cardinality({ i \in 1 .. Len(s) : s[i] = x })

\* The readers are not offered a sync error (line 211).
OfferedToReaders(msg) == ~(~raw /\ ~msg.success /\ msg.error.code = ERR_SYNC)

\* C37: when the delivery of a message is over and no filter blocked it,
\* every reader that was registered from its start to its end was notified
\* of it exactly once, whatever register and unregister calls were made
\* meanwhile.
C37_ConcurrentRegistrationHarmless ==
    (loop_pc = "delivered" /\ p_cur.blocked_by = 0 /\ OfferedToReaders(p_cur.msg)) =>
        \A x \in Stayed(p_cur, p_cur.start_r) : Occurrences(p_cur.readers_called, x) = 1

\* C38: at the step that writes a reply-expecting request the framer buffer
\* is empty, so that no byte received for an earlier request is scanned with
\* the bytes of its reply.
C38_BufferEmptyAtWrite ==
    [][(tx' # tx /\ in_flight' # 0 /\ in_flight' # in_flight) => buffer = <<>>]_vars

\* The init threads that have been started and have not ended.
InitsInProgress ==
    { o \in Ops : i_pc[o] \in {"messages", "messages_get", "responses",
                               "responses_get", "connect"} }

\* C39: the state is INITIALIZING only on a NORMAL instance, at most one init
\* sequence is in progress at a time, and an initialize call that was refused
\* with the not-ready error started no init thread; this under every
\* interleaving of initialize calls made on different threads.
C39_OneInitSequence ==
    /\ connection_state = INITIALIZING => mode = NORMAL
    /\ Cardinality(InitsInProgress) <= 1
    /\ \A o \in Ops :
          (kind[o] = "init" /\ NotReadyError \in Range(delivered[o])) => i_pc[o] = "none"

=============================================================================
